---------------------------- MODULE Spec2Model ----------------------------
(***************************************************************************)
(* Model of the DOCX -> static site converters of this repository.         *)
(*                                                                         *)
(*   src/converter.js       convertNovelToWebsite: transformFootnotes,     *)
(*                          cleanupArtifacts, extractDocumentStructure,    *)
(*                          generateHtmlFiles                              *)
(*   src/unnamed/part_000   the single-list pipeline: parseAndCleanFoot-   *)
(*                          notes, parseChapters, extractFootnotes,        *)
(*                          processConlangInText, enrichConlang, the UI    *)
(*                          pass of main                                   *)
(*                                                                         *)
(* Several state machines share the module.  Each has its own variables,   *)
(* initial predicate and next-state relation; a machine's actions leave    *)
(* the other machines' variables unchanged.                                *)
(*                                                                         *)
(*   SpecStruct   the .each callback of extractDocumentStructure, one      *)
(*                step per block of the h1/h2/h3/p stream                  *)
(*   SpecText     the text rewriting functions normalizeRefs,              *)
(*                cleanupArtifacts and processConlangInText applied to     *)
(*                one text node                                            *)
(*   SpecMain     one text node of one section through the section loop    *)
(*                of main: enrichConlang, the UI pass, the push            *)
(*   SpecFoot     the footnote discovery of main: the section pass of      *)
(*                parseAndCleanFootnotes, the two passes of                *)
(*                extractFootnotes, the merge                              *)
(*   SpecTransform  transformFootnotes, one step per anchor                *)
(*   SpecSite     main from the decoding to the pages written, with the    *)
(*                failures the try block can meet                          *)
(*   SpecTimed    SpecSite with the clock                                  *)
(*   SpecStages   the stages of main in program order on one document      *)
(*   SpecCleanup  cleanupArtifacts on texts made of a few pieces           *)
(*   SpecImage    processImageReferences on the html of one item           *)
(*   SpecGenerate extractDocumentStructure, then generateHtmlFiles         *)
(***************************************************************************)
EXTENDS Naturals, Integers, Sequences, FiniteSets, TLC

VARIABLES
    \* ---- extractDocumentStructure (src/converter.js) ----
    doc,            \* the h1/h2/h3/p elements visited so far, in document order
    structure,      \* the structure object being filled
    currentBook,    \* index into structure.books of the book object, 0 = null
    inFrontMatter,  \* the inFrontMatter flag
    \* ---- one text node on its way through a text pass ----
    text,           \* the text node's data as decoded from the document
    html,           \* the markup the node has become so far
    pc,             \* the pass the node has been through
    tag,            \* the element holding the node: "p" or a heading
    footMap,        \* the footnote mapping, numeral -> annotation
    skipConlangProcessing,  \* config.skipConlangProcessing
    \* ---- footnote discovery of main (src/unnamed/part_000) ----
    fnPhase,        \* the pass of footnote discovery in progress
    fnDoc,          \* the elements of rawHtml, in document order
    fnDom,          \* the document parseAndCleanFootnotes works on, which
                    \* it returns as cleanedHtml
    fnCursor,       \* how far the .each of the pass in progress has come
    extractedFootnotes,     \* the Map built by parseAndCleanFootnotes
    additionalFootnotes,    \* the Map built by extractFootnotes
    \* ---- transformFootnotes (src/converter.js) ----
    tfRefs,         \* the sup > a anchors, in document order, and what each
                    \* has become
    tfDefs,         \* id -> text of the footnote elements of the document
    tfLive,         \* the ids of the footnote elements still in the document
    tfCursor,       \* the anchor the .each is at
    \* ---- main (src/unnamed/part_000) ----
    body,           \* the blocks of cleanedHtml, in document order
    chapters,       \* the array parseChapters returns
    skipChapters,   \* config.skipChapters
    minimalProcessing,      \* config.minimalProcessing
    chapterIndex,   \* the loop variable i of the loop in progress
    processedChapters,
    toc,
    files,          \* the pages written to config.outputDir, by file name
    mainPc,         \* where main is
    log,            \* what main has reported, in order
    \* ---- processImageReferences (src/converter.js) ----
    imageHtml,      \* the parameter html
    imageMap,       \* the parameter imageMap: relationship id -> file name
    processedHtml,  \* the local processedHtml, which is returned
    imagePc,        \* whether the function has been called
    \* ---- the clock main reads (src/unnamed/part_000) ----
    now,            \* performance.now() since tAll was made, in ticks
    \* ---- generateHtmlFiles (src/converter.js) ----
    htmlFiles,      \* the pages written under outputDir, by path
    genPc           \* whether generateHtmlFiles has run

structVars == <<doc, structure, currentBook, inFrontMatter>>

textVars == <<text, html, pc, tag, skipConlangProcessing>>

footVars ==
    <<fnPhase, fnDoc, fnDom, fnCursor, extractedFootnotes, additionalFootnotes>>

transVars == <<tfRefs, tfDefs, tfLive, tfCursor>>

siteVars ==
    <<body, chapters, skipChapters, minimalProcessing, chapterIndex,
      processedChapters, toc, files, mainPc, log>>

imageVars == <<imageHtml, imageMap, processedHtml, imagePc>>

timeVars == <<now>>

genVars == <<htmlFiles, genPc>>

lateVars == <<imageVars, timeVars, genVars>>

restVars == <<transVars, siteVars, lateVars>>

vars == <<structVars, textVars, footMap, footVars, restVars>>

(***************************************************************************)
(* Bounds of the model.                                                    *)
(***************************************************************************)
MaxBlocks == 4      \* longest block stream fed to extractDocumentStructure

(***************************************************************************)
(* Generic helpers.                                                        *)
(***************************************************************************)
Last(s) == s[Len(s)]

RECURSIVE SeqSum(_)
SeqSum(s) == IF s = <<>> THEN 0 ELSE Head(s) + SeqSum(Tail(s))

\* number of positions of sequence s whose element satisfies P
Count(s, P(_)) == Cardinality({i \in DOMAIN s : P(s[i])})

(***************************************************************************)
(* Strings.  A string is the sequence of its characters.  The fixed pieces *)
(* of markup the code writes (tags, entities, the words of the placeholder *)
(* payload) are kept as one element each: none of them holds a digit       *)
(* followed by F, a bracket, or anything else the patterns below look for, *)
(* so every pattern reads the sequence as it reads the string.             *)
(***************************************************************************)
MaxTextLen == 5     \* longest text node sent through the section loop
MaxNormLen == 6     \* longest text given to normalizeRefs / cleanupArtifacts

\* characters of prose: a digit, the tag letter, brackets, any other letter
TextChars == {"1", "F", "[", "]", "a"}

SeqsUpTo(S, n) == UNION {[1..k -> S] : k \in 0..n}

IsDigit(c) == c \in {"0", "1", "2", "3", "4", "5", "6", "7", "8", "9"}

\* the character at position i, "" past either end
At(s, i) == IF i \in DOMAIN s THEN s[i] ELSE ""

\* \d+ at position i: the length of the run of digits starting there
RECURSIVE DigitRun(_, _)
DigitRun(s, i) == IF IsDigit(At(s, i)) THEN 1 + DigitRun(s, i + 1) ELSE 0

SetMax(S) == CHOOSE x \in S : \A y \in S : y <= x

\* /(\d+)F\1F/ tried at position i: the length of group 1, 0 when the
\* pattern does not match there (\d+ is greedy and backtracks)
DupMatch(s, i) ==
    LET ks == {k \in 1..DigitRun(s, i) :
                  /\ i + 2 * k + 1 <= Len(s)
                  /\ s[i + k] = "F"
                  /\ SubSeq(s, i + k + 1, i + 2 * k) = SubSeq(s, i, i + k - 1)
                  /\ s[i + 2 * k + 1] = "F"}
    IN  IF ks = {} THEN 0 ELSE SetMax(ks)

\* s.replace(/(\d+)F\1F/g, '$1F') from position i on: matches are taken
\* left to right and the scan resumes after each match
RECURSIVE CollapseDup(_, _)
CollapseDup(s, i) ==
    IF i > Len(s) THEN <<>>
    ELSE LET k == DupMatch(s, i)
         IN  IF k > 0
             THEN SubSeq(s, i, i + k) \o CollapseDup(s, i + 2 * k + 2)
             ELSE <<s[i]>> \o CollapseDup(s, i + 1)

\* const normalizeRefs = txt => txt.replace(NORMALIZE_RX, '$1F')
normalizeRefs(txt) == CollapseDup(txt, 1)

\* (?:\[\d+\])? at position j: the length it takes, 0 when absent
BracketNumLen(s, j) ==
    LET r == DigitRun(s, j + 1)
    IN  IF At(s, j) = "[" /\ r > 0 /\ At(s, j + 1 + r) = "]"
        THEN r + 2 ELSE 0

\* original.replace(/(\d+)F\1F(?:\[\d+\])?/g, '') from position i on
RECURSIVE RemoveArtifacts(_, _)
RemoveArtifacts(s, i) ==
    IF i > Len(s) THEN <<>>
    ELSE LET k == DupMatch(s, i)
             e == i + 2 * k + 2
         IN  IF k > 0
             THEN RemoveArtifacts(s, e + BracketNumLen(s, e))
             ELSE <<s[i]>> \o RemoveArtifacts(s, i + 1)

\* cleanupArtifacts on one text node: the text that replaces it
cleanupArtifacts(original) == RemoveArtifacts(original, 1)

\* const escapeHTML = s => s.replace(/&/g,'&amp;').replace(/</g,'&lt;')...
\* & is replaced first, so the entities written are not escaped again
EscapeChar(c) ==
    CASE c = "&"  -> "&amp;"
      [] c = "<"  -> "&lt;"
      [] c = ">"  -> "&gt;"
      [] c = "\"" -> "&quot;"
      [] c = "'"  -> "&#39;"
      [] OTHER    -> c

escapeHTML(s) == [i \in DOMAIN s |-> EscapeChar(s[i])]

\* pieces of markup written by processConlangInText and by the UI pass
SpanOpen == "<span class=\"conlang\" data-tr=\""
SpanMissingOpen == "<span class=\"conlang missing\" data-tr=\""
AttrEnd == "\">"
SpanClose == "</span>"
MissingText == "translation missing for "
UiOpen == "<span class=\"ui\">"
DollarOne == "$1"

\* footMap.get(num): the annotation, <<>> (falsy, like undefined) if none
MapGet(m, num) == IF num \in DOMAIN m THEN m[num] ELSE <<>>

\* the callback with the class of the placeholder span forgotten
ConlangSpanNoMissingClass(num, m) ==
    LET trans == MapGet(m, num)
    IN  IF trans = <<>>
        THEN <<SpanOpen, "[", MissingText>> \o num \o <<"]", AttrEnd>>
                 \o num \o <<"F", SpanClose>>
        ELSE <<SpanOpen>> \o escapeHTML(trans) \o <<AttrEnd>>
                 \o num \o <<"F", SpanClose>>

\* the replace callback of processConlangInText (lines 133-143);
\* `!trans` holds for undefined and for the empty string alike
ConlangSpan(num, m) ==
    LET trans == MapGet(m, num)
    IN  IF trans = <<>>
        THEN <<SpanMissingOpen, "[", MissingText>> \o num \o <<"]", AttrEnd>>
                 \o num \o <<"F", SpanClose>>
        ELSE <<SpanOpen>> \o escapeHTML(trans) \o <<AttrEnd>>
                 \o num \o <<"F", SpanClose>>

\* /\[(\d+)F?\]|(\d+)F/ tried at position i: the length of the match (0
\* when there is none) and the numeral g1 || g2
RefMatch(s, i) ==
    LET r1 == DigitRun(s, i + 1)
        r2 == DigitRun(s, i)
    IN  IF At(s, i) = "[" /\ r1 > 0 /\ At(s, i + 1 + r1) = "F"
           /\ At(s, i + 2 + r1) = "]"
        THEN [len |-> r1 + 3, num |-> SubSeq(s, i + 1, i + r1)]
        ELSE IF At(s, i) = "[" /\ r1 > 0 /\ At(s, i + 1 + r1) = "]"
        THEN [len |-> r1 + 2, num |-> SubSeq(s, i + 1, i + r1)]
        ELSE IF r2 > 0 /\ At(s, i + r2) = "F"
        THEN [len |-> r2 + 1, num |-> SubSeq(s, i, i + r2 - 1)]
        ELSE [len |-> 0, num |-> <<>>]

\* processed.replace(/\[(\d+)F?\]|(\d+)F/g, callback) from position i on
RECURSIVE ReplaceRefs(_, _, _)
ReplaceRefs(s, i, m) ==
    IF i > Len(s) THEN <<>>
    ELSE LET r == RefMatch(s, i)
         IN  IF r.len > 0
             THEN ConlangSpan(r.num, m) \o ReplaceRefs(s, i + r.len, m)
             ELSE <<s[i]>> \o ReplaceRefs(s, i + 1, m)

\* processConlangInText(text, footMap): collapse, then substitute
processConlangInText(t, m) == ReplaceRefs(CollapseDup(t, 1), 1, m)

\* the index of the first "]" at or after position j, 0 when there is none
RECURSIVE NextClose(_, _)
NextClose(s, j) ==
    IF j > Len(s) THEN 0
    ELSE IF s[j] = "]" THEN j ELSE NextClose(s, j + 1)

\* /\[.*?\]/.test(html)
HasBracketPair(s) == \E i \in DOMAIN s : s[i] = "[" /\ NextClose(s, i + 1) > 0

\* /^\d+F?$/.test(content)
IsRefContent(c) ==
    LET r == DigitRun(c, 1)
    IN  r > 0 /\ (r = Len(c) \/ (r = Len(c) - 1 /\ c[Len(c)] = "F"))

\* html.replace(/\[([^\]]+)\]/g, callback) from position i on.  The
\* callback returns the string `<span class="ui">[$1]</span>`; a function's
\* return value is inserted as it is, so the characters $1 stay in it.
RECURSIVE TagBrackets(_, _)
TagBrackets(s, i) ==
    IF i > Len(s) THEN <<>>
    ELSE LET j == IF s[i] = "[" THEN NextClose(s, i + 1) ELSE 0
         IN  IF j > i + 1
             THEN (IF IsRefContent(SubSeq(s, i + 1, j - 1))
                   THEN SubSeq(s, i, j)
                   ELSE <<UiOpen, "[", DollarOne, "]", SpanClose>>)
                  \o TagBrackets(s, j + 1)
             ELSE <<s[i]>> \o TagBrackets(s, i + 1)

(***************************************************************************)
(* Footnote mappings handed to the section loop.  Numerals are strings of  *)
(* digits.  An empty annotation is one the sup/sub pass of                 *)
(* extractFootnotes can record (map.set(num, footnoteMatch[1].trim())).    *)
(***************************************************************************)
EmptyMap == <<>>
One == <<"1">>
Eleven == <<"1", "1">>

FootMaps ==
    { EmptyMap,
      One :> <<"a", "&">>,
      One :> <<"[", "a", "]">>,
      One :> <<>>,
      Eleven :> <<"a">>,
      (One :> <<"a">>) @@ (Eleven :> <<"b">>) }

TextIdle ==
    /\ text = <<>>
    /\ html = <<>>
    /\ pc = "idle"
    /\ tag = "p"
    /\ skipConlangProcessing = FALSE

FootIdle ==
    /\ fnPhase = "idle"
    /\ fnDoc = <<>>
    /\ fnDom = <<>>
    /\ fnCursor = 0
    /\ extractedFootnotes = EmptyMap
    /\ additionalFootnotes = EmptyMap

TransIdle ==
    /\ tfRefs = <<>>
    /\ tfDefs = EmptyMap
    /\ tfLive = {}
    /\ tfCursor = 0

SiteIdle ==
    /\ body = <<>>
    /\ chapters = <<>>
    /\ skipChapters = {}
    /\ minimalProcessing = FALSE
    /\ chapterIndex = 0
    /\ processedChapters = <<>>
    /\ toc = <<>>
    /\ files = EmptyMap
    /\ mainPc = "idle"
    /\ log = <<>>

ImageIdle ==
    /\ imageHtml = <<>>
    /\ imageMap = <<>>
    /\ processedHtml = <<>>
    /\ imagePc = "idle"

TimeIdle == now = 0

GenIdle == htmlFiles = <<>> /\ genPc = "idle"

LateIdle == ImageIdle /\ TimeIdle /\ GenIdle

RestIdle == TransIdle /\ SiteIdle /\ LateIdle

(***************************************************************************)
(* Blocks.  The text of an element, $(el).text().trim(), is modelled as    *)
(* its sequence of whitespace-separated words, case-folded (all the        *)
(* patterns below carry the i flag and the identifiers are lower-cased).   *)
(***************************************************************************)
Block(tagName, words) == [tag |-> tagName, text |-> words]

\* The elements the stream is drawn from: every tag, and texts that match
\* each classification pattern, several of them, or none.
Blocks ==
    { Block("h1", <<"book", "one">>),
      Block("h1", <<"chapter", "one">>),
      Block("h2", <<"chapter", "two">>),
      Block("h2", <<"appendix", "a">>),
      Block("h1", <<"chapter", "one", "appendix">>),
      Block("h2", <<"book", "one">>),
      Block("h1", <<"book", "two", "chapter", "one">>),
      Block("h1", <<"prologue">>),
      Block("h3", <<"scene">>),
      Block("p",  <<"prose">>),
      Block("p",  <<"see", "appendix">>) }

\* /appendix|one pagers|persons of interest|charts, maps/i.test(text)
IsAppendixText(t) ==
    \/ \E i \in DOMAIN t : t[i] = "appendix"
    \/ \E i \in 1..(Len(t) - 1) : t[i] = "one" /\ t[i + 1] = "pagers"
    \/ \E i \in 1..(Len(t) - 2) :
          t[i] = "persons" /\ t[i + 1] = "of" /\ t[i + 2] = "interest"
    \/ \E i \in 1..(Len(t) - 1) : t[i] = "charts," /\ t[i + 1] = "maps"

\* positions where /chapter\s+\w+/i matches: the word chapter, then a word
ChapterMatches(t) == {i \in 1..(Len(t) - 1) : t[i] = "chapter"}

IsChapterText(t) == ChapterMatches(t) # {}

\* text.match(/chapter\s+(\w+(?:-\w+)?)/i)[1]: the word after the leftmost
\* chapter keyword
ChapterNum(t) ==
    LET i == CHOOSE k \in ChapterMatches(t) :
                 \A j \in ChapterMatches(t) : k <= j
    IN  t[i + 1]

\* /book\s+\w+/i.test(text)
IsBookText(t) == \E i \in 1..(Len(t) - 1) : t[i] = "book"

IsTopHeading(b) == b.tag \in {"h1", "h2"}

\* the three heading tests of the callback, in the order the code makes them
IsAppendixHeading(b) == IsTopHeading(b) /\ IsAppendixText(b.text)
\* the chapter test reached although the appendix branch was taken (the
\* appendix branch without its return)
IsChapterHeadingNoReturn(b) == IsTopHeading(b) /\ IsChapterText(b.text)

IsChapterHeading(b) ==
    ~IsAppendixHeading(b) /\ IsTopHeading(b) /\ IsChapterText(b.text)
IsBookHeading(b) ==
    /\ ~IsAppendixHeading(b)
    /\ ~IsChapterHeading(b)
    /\ b.tag = "h1"
    /\ IsBookText(b.text)

IsStructural(b) ==
    IsAppendixHeading(b) \/ IsChapterHeading(b) \/ IsBookHeading(b)

\* `appendix-${text.toLowerCase().replace(/[\s,]/g,'-').replace(/[^\w-]/g,'')}`
\* the slug of a punctuation-free word sequence is its words joined by '-',
\* kept here as the word sequence itself
AppendixId(t) == <<"appendix">> \o t

\* `chapter-${chapterNum.toLowerCase().replace(/\s+/g, '-')}`
ChapterId(t) == <<"chapter", ChapterNum(t)>>

\* { type: tagName, html: $(el).html() }; `at` is the position of el in the
\* stream, the identity of the element the item was made from
Item(b, at) == [type |-> b.tag, html |-> b.text, at |-> at]

EmptyStructure ==
    [title |-> "Novel", frontMatter |-> <<>>, books |-> <<>>,
     chapters |-> <<>>, appendices |-> <<>>]

StructIdle ==
    /\ doc = <<>>
    /\ structure = EmptyStructure
    /\ currentBook = 0
    /\ inFrontMatter = TRUE

InitStruct ==
    StructIdle /\ TextIdle /\ FootIdle /\ RestIdle /\ footMap = EmptyMap

\* content.push(item) on the last element of a section list
PushToLast(sections, item) ==
    [sections EXCEPT ![Len(sections)].content = Append(@, item)]

\* lines 199-213: a new appendix
OpenAppendix(b) ==
    /\ IsAppendixHeading(b)
    /\ inFrontMatter' = FALSE
    /\ structure' = [structure EXCEPT !.appendices =
           Append(@, [title |-> b.text, id |-> AppendixId(b.text),
                      content |-> <<>>])]
    /\ UNCHANGED currentBook

\* a new chapter with no default book made for it
OpenChapterNoDefaultBook(b) ==
    /\ IsChapterHeading(b)
    /\ inFrontMatter' = FALSE
    /\ LET chapter == [title |-> b.text, id |-> ChapterId(b.text),
                       numericId |-> ChapterNum(b.text),
                       referenceId |-> "", content |-> <<>>]
           chapters1 == Append(structure.chapters, chapter)
           books2 == IF currentBook # 0
                     THEN [structure.books EXCEPT ![currentBook].chapters =
                              Append(@, Len(chapters1))]
                     ELSE structure.books
       IN /\ structure' = [structure EXCEPT !.chapters = chapters1,
                                            !.books = books2]
          /\ UNCHANGED currentBook

\* lines 216-263: a new chapter, attached to the current book; a default
\* book is made when structure.books is empty
OpenChapter(b) ==
    /\ IsChapterHeading(b)
    /\ inFrontMatter' = FALSE
    /\ LET chapter == [title |-> b.text, id |-> ChapterId(b.text),
                       numericId |-> ChapterNum(b.text),
                       referenceId |-> "", content |-> <<>>]
           chapters1 == Append(structure.chapters, chapter)
           books1 == IF structure.books = <<>>
                     THEN <<[title |-> <<"book", "one">>, chapters |-> <<>>]>>
                     ELSE structure.books
           book1 == IF structure.books = <<>> THEN 1 ELSE currentBook
           books2 == IF book1 # 0
                     THEN [books1 EXCEPT ![book1].chapters =
                              Append(@, Len(chapters1))]
                     ELSE books1
       IN /\ structure' = [structure EXCEPT !.chapters = chapters1,
                                            !.books = books2]
          /\ currentBook' = book1

\* a new book that leaves the front matter open
OpenBookInFrontMatter(b) ==
    /\ IsBookHeading(b)
    /\ structure' = [structure EXCEPT !.books =
           Append(@, [title |-> b.text, chapters |-> <<>>])]
    /\ currentBook' = Len(structure.books) + 1
    /\ UNCHANGED inFrontMatter

\* lines 266-278: a new book
OpenBook(b) ==
    /\ IsBookHeading(b)
    /\ inFrontMatter' = FALSE
    /\ structure' = [structure EXCEPT !.books =
           Append(@, [title |-> b.text, chapters |-> <<>>])]
    /\ currentBook' = Len(structure.books) + 1

\* lines 296-304: the text of $(el).prev() matches an appendix phrase
InAppendixSection ==
    /\ doc # <<>>
    /\ IsAppendixText(Last(doc).text)

\* lines 281-325: a block that opens nothing goes to the section the branch
\* chain selects; the chain has no final else
AddContent(b) ==
    /\ ~IsStructural(b)
    /\ LET item == Item(b, Len(doc) + 1)
           nApp == Len(structure.appendices)
           nChap == Len(structure.chapters)
       IN structure' =
            IF inFrontMatter
            THEN [structure EXCEPT !.frontMatter = Append(@, item)]
            ELSE IF nApp > 0 /\ nChap = 0
            THEN [structure EXCEPT !.appendices = PushToLast(@, item)]
            ELSE IF nApp > 0
            THEN IF InAppendixSection
                 THEN [structure EXCEPT !.appendices = PushToLast(@, item)]
                 ELSE IF nChap > 0
                 THEN [structure EXCEPT !.chapters = PushToLast(@, item)]
                 ELSE structure
            ELSE IF nChap > 0
            THEN [structure EXCEPT !.chapters = PushToLast(@, item)]
            ELSE structure
    /\ UNCHANGED <<currentBook, inFrontMatter>>

\* one call of the .each callback (lines 195-326) on the next element b
VisitBlock ==
    /\ Len(doc) < MaxBlocks
    /\ \E b \in Blocks :
          /\ \/ OpenAppendix(b)
             \/ OpenChapter(b)
             \/ OpenBook(b)
             \/ AddContent(b)
          /\ doc' = Append(doc, b)
    /\ UNCHANGED <<textVars, footMap, footVars, restVars>>

NextStruct == VisitBlock

SpecStruct == InitStruct /\ [][NextStruct]_vars


(***************************************************************************)
(* SpecText: normalizeRefs, cleanupArtifacts and processConlangInText      *)
(* applied to a text node.                                                 *)
(***************************************************************************)
InitText ==
    /\ StructIdle
    /\ RestIdle
    /\ FootIdle
    /\ text \in SeqsUpTo(TextChars, MaxNormLen)
    /\ html = text
    /\ pc = "raw"
    /\ tag = "p"
    /\ footMap = EmptyMap
    /\ skipConlangProcessing = FALSE

\* a run of the Markup Normalizer, and a second run on its result
NormalizeRefs ==
    /\ pc \in {"raw", "normalized"}
    /\ html' = normalizeRefs(html)
    /\ pc' = IF pc = "raw" THEN "normalized" ELSE "normalized twice"
    /\ UNCHANGED <<text, tag, footMap, skipConlangProcessing, structVars, restVars, footVars>>

\* the callback of cleanupArtifacts on the text node (lines 165-174)
CleanupArtifacts ==
    /\ pc = "raw"
    /\ html' = cleanupArtifacts(html)
    /\ pc' = "cleaned"
    /\ UNCHANGED <<text, tag, footMap, skipConlangProcessing, structVars, restVars, footVars>>

\* processConlangInText(text, footMap) as enrichConlang calls it on a text
\* node (line 152), for a mapping m
ProcessConlang ==
    /\ pc = "raw"
    /\ \E m \in FootMaps :
          /\ footMap' = m
          /\ html' = processConlangInText(html, m)
    /\ pc' = "conlang"
    /\ UNCHANGED <<text, tag, skipConlangProcessing, structVars, restVars, footVars>>

NextText == NormalizeRefs \/ CleanupArtifacts \/ ProcessConlang

SpecText == InitText /\ [][NextText]_vars

(***************************************************************************)
(* SpecCleanup: cleanupArtifacts (src/converter.js 162-175) on one text    *)
(* node whose text is made of a few pieces, so that artifacts with text    *)
(* on both sides are among the inputs.                                     *)
(***************************************************************************)
MaxPieces == 4      \* most pieces of a text node

\* a marker, its halves, an artifact, a bracketed number, a letter
Pieces ==
    { <<"1">>, <<"F">>, <<"1", "F">>, <<"1", "F", "1", "F">>,
      <<"[", "1", "]">>, <<"a">> }

RECURSIVE Concat(_)
Concat(ps) == IF ps = <<>> THEN <<>> ELSE Head(ps) \o Concat(Tail(ps))

InitCleanup ==
    /\ StructIdle
    /\ RestIdle
    /\ FootIdle
    /\ text \in {Concat(ps) : ps \in SeqsUpTo(Pieces, MaxPieces)}
    /\ html = text
    /\ pc = "raw"
    /\ tag = "p"
    /\ footMap = EmptyMap
    /\ skipConlangProcessing = FALSE

NextCleanup == CleanupArtifacts

SpecCleanup == InitCleanup /\ [][NextCleanup]_vars

(***************************************************************************)
(* SpecMain: the body of the section loop of main (lines 708-764) as it    *)
(* acts on one text node of the section, held by a <p> or by the heading.  *)
(***************************************************************************)
InitMain ==
    /\ StructIdle
    /\ RestIdle
    /\ FootIdle
    /\ text \in SeqsUpTo(TextChars, MaxTextLen)
    /\ html = text
    /\ pc = "loaded"
    /\ tag \in {"p", "h1"}
    /\ footMap \in FootMaps
    /\ skipConlangProcessing \in BOOLEAN

\* lines 722-725 with enrichConlang (148-157): the text node is replaced
\* by processConlangInText of its data, unless processing is skipped or
\* the mapping is empty
EnrichConlang ==
    /\ pc = "loaded"
    /\ html' = IF ~skipConlangProcessing /\ DOMAIN footMap # {}
               THEN processConlangInText(html, footMap)
               ELSE html
    /\ pc' = "enriched"
    /\ UNCHANGED <<text, tag, footMap, skipConlangProcessing, structVars, restVars, footVars>>

\* lines 728-740: the UI pass rewrites the inner HTML of every <p>
TagUI ==
    /\ pc = "enriched"
    /\ html' = IF tag = "p" /\ html # <<>> /\ HasBracketPair(html)
               THEN TagBrackets(html, 1)
               ELSE html
    /\ pc' = "tagged"
    /\ UNCHANGED <<text, tag, footMap, skipConlangProcessing, structVars, restVars, footVars>>

\* lines 751-757: processedChapters.push({..., content: $body.html()})
PushSection ==
    /\ pc = "tagged"
    /\ pc' = "pushed"
    /\ UNCHANGED <<text, html, tag, footMap, skipConlangProcessing, structVars, restVars,
                   footVars>>

NextMain == EnrichConlang \/ TagUI \/ PushSection

SpecMain == InitMain /\ [][NextMain]_vars

(***************************************************************************)
(* SpecFoot: footnote discovery (main, lines 679-694) on one document.     *)
(* The document is the sequence of its elements that the passes look at,   *)
(* in document order.  An element is its id attribute and its text; a      *)
(* sup/sub element is its text and the text of its parent.  All of these   *)
(* are strings of characters.                                              *)
(***************************************************************************)
MaxEls == 2     \* most elements of a document

El(id, txt) == [id |-> id, text |-> txt]

\* elements holding a definition: the numeral in the id or leading the
\* text, two texts for numeral 1, a numeral with nothing after it, a text
\* with no numeral, an empty element
DefEls ==
    { El(<<"f", "n", "1">>, <<"x">>),
      El(<<>>, <<"1", ".", " ", "x">>),
      El(<<>>, <<"1", ".", " ", "y">>),
      El(<<>>, <<"2", ")", " ", "y">>),
      El(<<>>, <<"1", ".">>),
      El(<<>>, <<"x">>),
      El(<<>>, <<>>) }

SupSub(txt, parentText) == [text |-> txt, parent |-> parentText]

\* sup/sub elements: a numeral followed by text, by blanks only, inside a
\* word, and one that is not a numeral
SupSubEls ==
    { SupSub(<<"1">>, <<"1", " ", "z">>),
      SupSub(<<"1">>, <<"x", "1", " ">>),
      SupSub(<<"2">>, <<"H", "2", "O">>),
      SupSub(<<"x">>, <<"x", " ", "y">>) }

\* The nodes of a document.
\*   child    an element inside footnote section number sec (a div or
\*            section whose id or class contains "footnote"); neighbouring
\*            children of the same number are in the same section
\*   section  a footnote section holding no element
\*   def      an element outside the footnote sections that the selector
\*            list of extractFootnotes matches (an li of id footnote-1, a p
\*            of class footnote)
\*   sup, sub a sup or sub element inside a paragraph
\*   p        a paragraph of prose
\*   text     a text node written in the place of an element
SecChild(sec, tagName, el) ==
    [kind |-> "child", sec |-> sec, tag |-> tagName, el |-> el]

EmptySection == [kind |-> "section"]

Def(el) == [kind |-> "def", el |-> el]

Script(kind, el) == [kind |-> kind, el |-> el]

Para == [kind |-> "p"]

TextNode(txt) == [kind |-> "text", text |-> txt]

\* the p, div and span elements of a section, and two li elements of one
Nodes ==
    {SecChild(sec, "p", el) : sec \in {1, 2}, el \in DefEls}
        \cup {SecChild(1, "li", El(<<"f", "n", "1">>, <<"x">>)),
              SecChild(1, "li", El(<<>>, <<"2", ")", " ", "y">>))}
        \cup {EmptySection}
        \cup {Def(el) : el \in DefEls}
        \cup {Script(kind, el) : kind \in {"sup", "sub"}, el \in SupSubEls}
        \cup {Para}

IsSpace(c) == c = " "

\* .trim()
RECURSIVE TrimLeft(_)
TrimLeft(s) ==
    IF s # <<>> /\ IsSpace(Head(s)) THEN TrimLeft(Tail(s)) ELSE s

RECURSIVE TrimRight(_)
TrimRight(s) ==
    IF s # <<>> /\ IsSpace(s[Len(s)])
    THEN TrimRight(SubSeq(s, 1, Len(s) - 1)) ELSE s

Trim(s) == TrimRight(TrimLeft(s))

\* the length of the run of characters of set C starting at position i
RECURSIVE RunOf(_, _, _)
RunOf(s, i, C) == IF At(s, i) \in C THEN 1 + RunOf(s, i + 1, C) ELSE 0

\* id.match(/(\d+)/)[1]: the first run of digits, <<>> when there is none
IdNum(id) ==
    LET starts == {i \in DOMAIN id : IsDigit(id[i])}
    IN  IF starts = {} THEN <<>>
        ELSE LET i == CHOOSE k \in starts : \A j \in starts : k <= j
             IN  SubSeq(id, i, i + DigitRun(id, i) - 1)

\* text.match(/^(\d+)[\s\.\)]/)[1], <<>> when there is no match
LeadNum(t) ==
    LET r == DigitRun(t, 1)
    IN  IF r > 0 /\ At(t, r + 1) \in {" ", ".", ")"}
        THEN SubSeq(t, 1, r) ELSE <<>>

\* text.match(/\[(\d+)\]|^(\d+)$/): group 1 || group 2 of the leftmost match
BracketedAt(t, i) ==
    At(t, i) = "[" /\ DigitRun(t, i + 1) > 0
        /\ At(t, i + 1 + DigitRun(t, i + 1)) = "]"

RefNum(t) ==
    LET starts == {i \in DOMAIN t : BracketedAt(t, i)}
    IN  IF t # <<>> /\ DigitRun(t, 1) = Len(t) THEN t
        ELSE IF starts = {} THEN <<>>
        ELSE LET i == CHOOSE k \in starts : \A j \in starts : k <= j
             IN  SubSeq(t, i + 1, i + DigitRun(t, i + 1))

\* text.replace(/^[\[\(]?\d+[\]\)]?[\s\.\)]*/, '')
StripNum(t) ==
    LET a == IF At(t, 1) \in {"[", "("} /\ DigitRun(t, 2) > 0 THEN 1 ELSE 0
        r == DigitRun(t, a + 1)
        b == IF At(t, a + r + 1) \in {"]", ")"} THEN 1 ELSE 0
        w == RunOf(t, a + r + b + 1, {" ", ".", ")"})
    IN  IF r = 0 THEN t ELSE SubSeq(t, a + r + b + w + 1, Len(t))

\* text.replace(/^\d+\s*/, '')
StripPlainNum(t) ==
    LET r == DigitRun(t, 1)
    IN  IF r = 0 THEN t
        ELSE SubSeq(t, r + 1 + RunOf(t, r + 1, {" "}), Len(t))

\* parentText.match(new RegExp(`${num}[\\s\\.:]*(.+)`)) tried at position
\* i: the start of group 1, 0 when the pattern does not match there.  The
\* greedy run gives back its last character when nothing follows it.
SupMatchAt(t, num, i) ==
    LET e == i + Len(num)
        w == RunOf(t, e, {" ", ".", ":"})
    IN  IF e - 1 > Len(t) \/ SubSeq(t, i, e - 1) # num THEN 0
        ELSE IF e + w <= Len(t) THEN e + w
        ELSE IF w > 0 THEN e + w - 1
        ELSE 0

\* group 1 of the leftmost match, <<"no match">> when there is none
NoMatch == <<"no match">>

SupMatch(t, num) ==
    LET starts == {i \in DOMAIN t : SupMatchAt(t, num, i) > 0}
    IN  IF starts = {} THEN NoMatch
        ELSE LET i == CHOOSE k \in starts : \A j \in starts : k <= j
             IN  SubSeq(t, SupMatchAt(t, num, i), Len(t))

\* map.set(num, value)
MapSet(m, num, value) ==
    [n \in DOMAIN m \cup {num} |-> IF n = num THEN value ELSE m[n]]

\* new Map([...first, ...second]): entries are set in order, so an entry
\* of second replaces the entry of first for the same numeral
MapMerge(first, second) ==
    [n \in DOMAIN first \cup DOMAIN second |->
        IF n \in DOMAIN second THEN second[n] ELSE first[n]]

\* the body of the inner .each of parseAndCleanFootnotes (lines 508-521)
\* on one child of a footnote section
SectionChildResult(m, el) ==
    LET txt == Trim(el.text)
        idMatch == IdNum(el.id)
        textMatch == LeadNum(txt)
        num == IF idMatch # <<>> THEN idMatch ELSE textMatch
        cleanText == Trim(StripNum(txt))
    IN  IF num # <<>> /\ cleanText # <<>>
        THEN MapSet(m, num, cleanText) ELSE m

\* the body of the first .each of extractFootnotes (lines 66-104) on one
\* element matched by the selector list
SelectorResult(m, el) ==
    LET txt == Trim(el.text)
        num == IF IdNum(el.id) # <<>> THEN IdNum(el.id)
               ELSE IF LeadNum(txt) # <<>> THEN LeadNum(txt)
               ELSE RefNum(txt)
        cleanText == Trim(StripPlainNum(StripNum(txt)))
    IN  IF num # <<>> /\ txt # <<>> /\ cleanText # <<>>
        THEN MapSet(m, num, cleanText) ELSE m

\* the body of the second .each of extractFootnotes (lines 107-123) on one
\* sup or sub element
SupSubResult(m, el) ==
    LET txt == Trim(el.text)
        isNum == txt # <<>> /\ DigitRun(txt, 1) = Len(txt)
        footnoteMatch == SupMatch(el.parent, txt)
    IN  IF isNum /\ footnoteMatch # NoMatch
        THEN MapSet(m, txt, Trim(footnoteMatch)) ELSE m

InitFoot ==
    /\ StructIdle
    /\ RestIdle
    /\ TextIdle
    /\ footMap = EmptyMap
    /\ fnPhase = "sections"
    /\ fnDoc \in SeqsUpTo(Nodes, MaxEls)
    /\ fnDom = [i \in DOMAIN fnDoc |-> [at |-> i, node |-> fnDoc[i]]]
    /\ fnCursor = 1
    /\ extractedFootnotes = EmptyMap
    /\ additionalFootnotes = EmptyMap

\* nodes i and j = i + 1 of the document are in the same footnote section
SameSection(i, j) ==
    /\ j \in DOMAIN fnDoc
    /\ fnDoc[i].kind = "child" /\ fnDoc[j].kind = "child"
    /\ fnDoc[i].sec = fnDoc[j].sec

\* the first position at or after i of a node of one of the kinds, 0 when
\* there is none
RECURSIVE NextOf(_, _, _)
NextOf(nodes, kinds, i) ==
    IF i > Len(nodes) THEN 0
    ELSE IF nodes[i].kind \in kinds THEN i ELSE NextOf(nodes, kinds, i + 1)

\* the position of the section node the outer .each is at
SectionCursor == NextOf(fnDoc, {"child", "section"}, fnCursor)

\* the first position of the section that holds position i
RECURSIVE SectionStart(_)
SectionStart(i) ==
    IF i > 1 /\ SameSection(i - 1, i) THEN SectionStart(i - 1) ELSE i

\* $section.find('p, div, span')
Found(node) == node.kind = "child" /\ node.tag \in {"p", "div", "span"}

\* lines 508-521: the inner .each of parseAndCleanFootnotes is at the next
\* element of the section; only p, div and span elements are visited
ScanSectionChild ==
    /\ fnPhase = "sections"
    /\ SectionCursor # 0
    /\ fnDoc[SectionCursor].kind = "child"
    /\ extractedFootnotes' =
           IF Found(fnDoc[SectionCursor])
           THEN SectionChildResult(extractedFootnotes, fnDoc[SectionCursor].el)
           ELSE extractedFootnotes
    /\ fnCursor' = SectionCursor + 1
    /\ fnPhase' = IF SameSection(SectionCursor, SectionCursor + 1)
                  THEN "sections" ELSE "section done"
    /\ UNCHANGED <<fnDoc, fnDom, additionalFootnotes, footMap, structVars, restVars,
                   textVars>>

\* line 524: $section.remove(), after the elements of the section, or at
\* once for a section that holds none
RemoveSection ==
    /\ \/ fnPhase = "section done"
       \/ /\ fnPhase = "sections"
          /\ SectionCursor # 0
          /\ fnDoc[SectionCursor].kind = "section"
    /\ LET last == IF fnPhase = "section done" THEN fnCursor - 1
                   ELSE SectionCursor
           first == SectionStart(last)
       IN  /\ fnDom' = SelectSeq(fnDom,
                           LAMBDA d : ~(first <= d.at /\ d.at <= last))
           /\ fnCursor' = last + 1
    /\ fnPhase' = "sections"
    /\ UNCHANGED <<fnDoc, extractedFootnotes, additionalFootnotes, footMap,
                   structVars, restVars, textVars>>

\* /^\d+$/.test(text)
IsNumeral(t) == t # <<>> /\ DigitRun(t, 1) = Len(t)

\* lines 528-536: a sup whose text is a numeral is replaced by `[${text}F]`
CleanReference(d) ==
    IF d.node.kind = "sup" /\ IsNumeral(Trim(d.node.el.text))
    THEN [at |-> d.at,
          node |-> TextNode(<<"[">> \o Trim(d.node.el.text) \o <<"F", "]">>)]
    ELSE d

\* lines 527-541: no section is left to visit; the inline references are
\* rewritten and parseAndCleanFootnotes returns.  extractFootnotes starts
\* on the cleaned document with an empty Map (line 50)
FinishSections ==
    /\ fnPhase = "sections"
    /\ SectionCursor = 0
    /\ fnDom' = [k \in DOMAIN fnDom |-> CleanReference(fnDom[k])]
    /\ fnPhase' = "selectors"
    /\ fnCursor' = 1
    /\ UNCHANGED <<fnDoc, extractedFootnotes, additionalFootnotes, footMap,
                   structVars, restVars, textVars>>

\* the position in cleanedHtml of the next element of the selector list
SelectorCursor == NextOf([k \in DOMAIN fnDom |-> fnDom[k].node],
                         {"def"}, fnCursor)

\* lines 66-104: extractFootnotes visits the next element matched by the
\* selector list
ScanSelectorElement ==
    /\ fnPhase = "selectors"
    /\ SelectorCursor # 0
    /\ additionalFootnotes' =
           SelectorResult(additionalFootnotes, fnDom[SelectorCursor].node.el)
    /\ fnCursor' = SelectorCursor + 1
    /\ UNCHANGED <<fnPhase, fnDoc, fnDom, extractedFootnotes, footMap,
                   structVars, restVars, textVars>>

\* the first loop of extractFootnotes ends, the sup/sub loop starts
FinishSelectors ==
    /\ fnPhase = "selectors"
    /\ SelectorCursor = 0
    /\ fnPhase' = "supsub"
    /\ fnCursor' = 1
    /\ UNCHANGED <<fnDoc, fnDom, extractedFootnotes, additionalFootnotes,
                   footMap, structVars, restVars, textVars>>

\* the position in cleanedHtml of the next sup or sub element
SupSubCursor == NextOf([k \in DOMAIN fnDom |-> fnDom[k].node],
                       {"sup", "sub"}, fnCursor)

\* lines 107-123: extractFootnotes visits the next sup or sub element
ScanSupSub ==
    /\ fnPhase = "supsub"
    /\ SupSubCursor # 0
    /\ additionalFootnotes' =
           SupSubResult(additionalFootnotes, fnDom[SupSubCursor].node.el)
    /\ fnCursor' = SupSubCursor + 1
    /\ UNCHANGED <<fnPhase, fnDoc, fnDom, extractedFootnotes, footMap,
                   structVars, restVars, textVars>>

\* line 693: footMap = new Map([...extractedFootnotes, ...additionalFootnotes])
MergeFootnotes ==
    /\ fnPhase = "supsub"
    /\ SupSubCursor = 0
    /\ footMap' = MapMerge(extractedFootnotes, additionalFootnotes)
    /\ fnPhase' = "merged"
    /\ UNCHANGED <<fnDoc, fnDom, fnCursor, extractedFootnotes,
                   additionalFootnotes, structVars, restVars, textVars>>

NextFoot ==
    \/ ScanSectionChild
    \/ RemoveSection
    \/ FinishSections
    \/ ScanSelectorElement
    \/ FinishSelectors
    \/ ScanSupSub
    \/ MergeFootnotes

SpecFoot == InitFoot /\ [][NextFoot]_vars

(***************************************************************************)
(* SpecTransform: transformFootnotes (src/converter.js 126-155) on a       *)
(* document with reference anchors <sup><a href="#id">n</a></sup> and      *)
(* footnote elements carrying those ids.                                   *)
(***************************************************************************)
MaxRefs == 3    \* most reference anchors of a document

\* <sup><a href="#target">number</a></sup>
Anchor(target, number) ==
    [kind |-> "anchor", target |-> target, number |-> number, text |-> <<>>]

\* <sup class="footnote">number<span class="footnote-tooltip">text</span></sup>
Tooltip(target, number, txt) ==
    [kind |-> "tooltip", target |-> target, number |-> number, text |-> txt]

Anchors == {Anchor("fn1", <<"1">>), Anchor("fn2", <<"2">>)}

\* the texts of footnote elements: with and without the leading number
NoteTexts == {<<"1", " ", "x">>, <<"y">>}

DefMaps == UNION {[D -> NoteTexts] : D \in SUBSET {"fn1", "fn2"}}

InitTransform ==
    /\ StructIdle
    /\ TextIdle
    /\ FootIdle
    /\ SiteIdle
    /\ LateIdle
    /\ footMap = EmptyMap
    /\ tfRefs \in SeqsUpTo(Anchors, MaxRefs)
    /\ tfDefs \in DefMaps
    /\ tfLive = DOMAIN tfDefs
    /\ tfCursor = 1

\* $footnote.text().trim().replace(/^\s*\d+\s*/, '')
FootnoteText(t) == StripPlainNum(Trim(t))

\* lines 128-146: the callback on the next anchor.  The footnote element is
\* looked up in the document as it is now; when found, the anchor's sup is
\* replaced by the tooltip and the footnote element is removed
TransformAnchor ==
    /\ tfCursor \in DOMAIN tfRefs
    /\ LET a == tfRefs[tfCursor]
       IN  IF a.target \in tfLive
           THEN /\ tfRefs' = [tfRefs EXCEPT ![tfCursor] =
                       Tooltip(a.target, Trim(a.number),
                               FootnoteText(tfDefs[a.target]))]
                /\ tfLive' = tfLive \ {a.target}
           ELSE UNCHANGED <<tfRefs, tfLive>>
    /\ tfCursor' = tfCursor + 1
    /\ UNCHANGED <<tfDefs, structVars, textVars, footMap, footVars, siteVars,
                   lateVars>>

\* lines 149-154: the empty ol and div elements are deleted and
\* transformFootnotes returns; no anchor and no tooltip is touched
RemoveEmptyContainers ==
    /\ tfCursor = Len(tfRefs) + 1
    /\ tfCursor' = tfCursor + 1
    /\ UNCHANGED <<tfRefs, tfDefs, tfLive, structVars, textVars, footMap,
                   footVars, siteVars,
                   lateVars>>

NextTransform == TransformAnchor \/ RemoveEmptyContainers

SpecTransform == InitTransform /\ [][NextTransform]_vars

(***************************************************************************)
(* SpecSite: one run of main (src/unnamed/part_000 663-860) from the       *)
(* decoding of the document to the pages written, with the failures the    *)
(* try block can meet.  A block is its tag and the words of its text, as   *)
(* above; the content of a section is the positions of its blocks.         *)
(***************************************************************************)
MaxBody == 3    \* most blocks of the decoded document

\* headings with and without the chapter keyword, with a leading number,
\* with a title generateId knows, with none of these; other blocks
SiteBlocks ==
    { Block("h1", <<"chapter", "1">>),
      Block("h2", <<"chapter", "2">>),
      Block("h1", <<"1", "arrival">>),
      Block("h1", <<"prologue">>),
      Block("h1", <<"untitled">>),
      Block("h3", <<"scene">>),
      Block("p",  <<"prose">>) }

SkipLists == SUBSET {<<"chapter", "1">>, <<"prologue">>}

\* a word that /^(\d+)/ matches whole
IsNumberWord(w) == w \in {"1", "2"}

NoNum == ""         \* chapterNum: null

\* lines 556-571: chapterMatch[1], else numberMatch[1], else null
SiteChapterNum(t) ==
    IF ChapterMatches(t) # {} THEN ChapterNum(t)
    ELSE IF t # <<>> /\ IsNumberWord(t[1]) THEN t[1]
    ELSE NoNum

\* $('h1, h2').toArray(): the positions of the headings, in order
Headings(b) ==
    SelectSeq([k \in DOMAIN b |-> k], LAMBDA k : b[k].tag \in {"h1", "h2"})

\* lines 574-580: the siblings after position h up to the next h1 or h2
RECURSIVE ContentAfter(_, _)
ContentAfter(b, h) ==
    IF h + 1 > Len(b) \/ b[h + 1].tag \in {"h1", "h2"} THEN <<>>
    ELSE <<h + 1>> \o ContentAfter(b, h + 1)

\* only the headings found make sections
parseChaptersNoSynthetic(b) ==
    LET hs == Headings(b)
    IN  [k \in DOMAIN hs |->
            [title |-> b[hs[k]].text,
             isChapter |-> SiteChapterNum(b[hs[k]].text) # NoNum,
             chapterNum |-> SiteChapterNum(b[hs[k]].text),
             heading |-> hs[k],
             content |-> ContentAfter(b, hs[k]),
             index |-> k - 1]]

\* parseChapters(html); heading 0 is the h1 'Full Document' made at line 598
parseChapters(b) ==
    LET hs == Headings(b)
    IN  IF hs = <<>>
        THEN << [title |-> <<"full", "document">>, isChapter |-> FALSE,
                 chapterNum |-> NoNum, heading |-> 0,
                 content |-> [k \in DOMAIN b |-> k], index |-> 0] >>
        ELSE [k \in DOMAIN hs |->
                 [title |-> b[hs[k]].text,
                  isChapter |-> SiteChapterNum(b[hs[k]].text) # NoNum,
                  chapterNum |-> SiteChapterNum(b[hs[k]].text),
                  heading |-> hs[k],
                  content |-> ContentAfter(b, hs[k]),
                  index |-> k - 1]]

\* lowerTitle.includes(word), for titles made of whole words
Includes(title, words) == \E k \in DOMAIN title : title[k] \in words

\* `section-${index}`
IndexWord(index) == <<"0", "1", "2", "3", "4", "5">>[index + 1]

\* generateId(chapter, index); an id is the sequence of its hyphen-separated
\* parts
generateId(chapter, index) ==
    IF chapter.chapterNum # NoNum THEN <<"chapter", chapter.chapterNum>>
    ELSE IF Includes(chapter.title, {"preface"}) THEN <<"preface">>
    ELSE IF Includes(chapter.title, {"prologue"}) THEN <<"prologue">>
    ELSE IF Includes(chapter.title, {"epilogue"}) THEN <<"epilogue">>
    ELSE IF Includes(chapter.title, {"acknowledgment", "acknowledgments"})
         THEN <<"acknowledgments">>
    ELSE IF Includes(chapter.title, {"dedication"}) THEN <<"dedication">>
    ELSE IF Includes(chapter.title, {"contents"}) THEN <<"toc">>
    ELSE IF index = 0 THEN <<"front-matter">>
    ELSE <<"section", IndexWord(index)>>

NoLink == <<>>      \* '<span></span>' in the place of a link

IndexFile == <<"index">>

Report(kind, stage, index) == [kind |-> kind, stage |-> stage, index |-> index]

InitSite ==
    /\ StructIdle
    /\ TextIdle
    /\ FootIdle
    /\ TransIdle
    /\ LateIdle
    /\ footMap = EmptyMap
    /\ body \in SeqsUpTo(SiteBlocks, MaxBody)
    /\ chapters = <<>>
    /\ skipChapters \in SkipLists
    /\ minimalProcessing \in BOOLEAN
    /\ chapterIndex = 0
    /\ processedChapters = <<>>
    /\ toc = <<>>
    /\ files = EmptyMap
    /\ mainPc = "start"
    /\ log = <<>>

\* an exception inside the try block: control goes to the catch at line 835,
\* which reports the error and, with config.minimalProcessing, goes on to
\* the fallback
Caught(stage, index) ==
    /\ log' = Append(log, Report("error", stage, index))
    /\ mainPc' = IF minimalProcessing THEN "fallback" ELSE "failed"

\* lines 667-677: the output directory is emptied, the file read and decoded
Decode ==
    /\ mainPc = "start"
    /\ mainPc' = "decoded"
    /\ UNCHANGED <<body, chapters, skipChapters, minimalProcessing,
                   chapterIndex, processedChapters, toc, files, log,
                   structVars, textVars, footMap, footVars, transVars,
                   lateVars>>

\* readFile or docxToHtml throws
DecodeThrows ==
    /\ mainPc = "start"
    /\ Caught("decode", 0)
    /\ UNCHANGED <<body, chapters, skipChapters, minimalProcessing,
                   chapterIndex, processedChapters, toc, files,
                   structVars, textVars, footMap, footVars, transVars,
                   lateVars>>

\* lines 679-706: the footnotes are collected (SpecFoot) and the cleaned
\* document is cut into sections
ParseChapters ==
    /\ mainPc = "decoded"
    /\ chapters' = parseChapters(body)
    /\ chapterIndex' = 0
    /\ mainPc' = "chapters"
    /\ UNCHANGED <<body, skipChapters, minimalProcessing, processedChapters,
                   toc, files, log,
                   structVars, textVars, footMap, footVars, transVars,
                   lateVars>>

\* the id of the section the loop at line 708 is at
CurrentId == generateId(chapters[chapterIndex + 1], chapterIndex)

\* the skipped section is listed in the table of contents all the same
SkipChapterStillListed ==
    /\ mainPc = "chapters"
    /\ chapterIndex < Len(chapters)
    /\ CurrentId \in skipChapters
    /\ toc' = Append(toc, [id |-> CurrentId,
                           title |-> chapters[chapterIndex + 1].title,
                           isChapter |-> chapters[chapterIndex + 1].isChapter])
    /\ chapterIndex' = chapterIndex + 1
    /\ UNCHANGED <<body, chapters, skipChapters, minimalProcessing,
                   processedChapters, files, mainPc, log,
                   structVars, textVars, footMap, footVars, transVars,
                   lateVars>>

\* lines 712-715: a section of the skip list
SkipChapter ==
    /\ mainPc = "chapters"
    /\ chapterIndex < Len(chapters)
    /\ CurrentId \in skipChapters
    /\ chapterIndex' = chapterIndex + 1
    /\ UNCHANGED <<body, chapters, skipChapters, minimalProcessing,
                   processedChapters, toc, files, mainPc, log,
                   structVars, textVars, footMap, footVars, transVars,
                   lateVars>>

\* lines 717-763: the section is enriched (SpecMain) and pushed
ProcessChapter ==
    /\ mainPc = "chapters"
    /\ chapterIndex < Len(chapters)
    /\ CurrentId \notin skipChapters
    /\ LET chapter == chapters[chapterIndex + 1]
       IN  /\ processedChapters' = Append(processedChapters,
                  [id |-> CurrentId, title |-> chapter.title,
                   content |-> <<chapter.heading>> \o chapter.content,
                   isChapter |-> chapter.isChapter, index |-> chapterIndex])
           /\ toc' = Append(toc, [id |-> CurrentId, title |-> chapter.title,
                                  isChapter |-> chapter.isChapter])
    /\ chapterIndex' = chapterIndex + 1
    /\ UNCHANGED <<body, chapters, skipChapters, minimalProcessing, files,
                   mainPc, log,
                   structVars, textVars, footMap, footVars, transVars,
                   lateVars>>

\* a call made while the section is enriched throws: nothing in the loop
\* catches it
ChapterThrows ==
    /\ mainPc = "chapters"
    /\ chapterIndex < Len(chapters)
    /\ CurrentId \notin skipChapters
    /\ Caught("section", chapterIndex)
    /\ UNCHANGED <<body, chapters, skipChapters, minimalProcessing,
                   chapterIndex, processedChapters, toc, files,
                   structVars, textVars, footMap, footVars, transVars,
                   lateVars>>

\* lines 766-780: the sidebar is made from toc and the writing loop starts
StartWriting ==
    /\ mainPc = "chapters"
    /\ chapterIndex = Len(chapters)
    /\ chapterIndex' = 0
    /\ mainPc' = "pages"
    /\ UNCHANGED <<body, chapters, skipChapters, minimalProcessing,
                   processedChapters, toc, files, log,
                   structVars, textVars, footMap, footVars, transVars,
                   lateVars>>

\* the targets of the links of the sidebar (lines 767-777)
Sidebar == [k \in DOMAIN toc |-> toc[k].id]

Page(kind, sidebar, prev, next, links, content) ==
    [kind |-> kind, sidebar |-> sidebar, prev |-> prev, next |-> next,
     links |-> links, content |-> content]

\* lines 781-800: the page of processedChapters[i] is written
WritePage ==
    /\ mainPc = "pages"
    /\ chapterIndex < Len(processedChapters)
    /\ LET k == chapterIndex + 1
           chapter == processedChapters[k]
           prev == IF k > 1 THEN processedChapters[k - 1].id ELSE NoLink
           next == IF k < Len(processedChapters)
                   THEN processedChapters[k + 1].id ELSE NoLink
       IN  files' = MapSet(files, chapter.id,
                        Page("chapter", Sidebar, prev, next, <<>>,
                             chapter.content))
    /\ chapterIndex' = chapterIndex + 1
    /\ UNCHANGED <<body, chapters, skipChapters, minimalProcessing,
                   processedChapters, toc, mainPc, log,
                   structVars, textVars, footMap, footVars, transVars,
                   lateVars>>

\* toc.filter(item => item.isChapter).map(...) and its complement: the
\* targets of one list of the index page
TocLinks(isChapter) ==
    LET items == SelectSeq(toc, LAMBDA item : item.isChapter = isChapter)
    IN  [k \in DOMAIN items |-> items[k].id]

\* lines 803-833: the index page, with its lists of chapters and of the
\* other sections, is written and the run reports success
WriteIndex ==
    /\ mainPc = "pages"
    /\ chapterIndex = Len(processedChapters)
    /\ files' = MapSet(files, IndexFile,
           Page("index", Sidebar, NoLink, NoLink,
                TocLinks(TRUE) \o TocLinks(FALSE), <<>>))
    /\ log' = Append(log, Report("done", "", 0))
    /\ mainPc' = "done"
    /\ UNCHANGED <<body, chapters, skipChapters, minimalProcessing,
                   chapterIndex, processedChapters, toc,
                   structVars, textVars, footMap, footVars, transVars,
                   lateVars>>

\* fse.outputFile throws (line 800 or 830)
WriteThrows ==
    /\ mainPc = "pages"
    /\ Caught("write", chapterIndex)
    /\ UNCHANGED <<body, chapters, skipChapters, minimalProcessing,
                   chapterIndex, processedChapters, toc, files,
                   structVars, textVars, footMap, footVars, transVars,
                   lateVars>>

\* the fallback page is written and nothing is reported
FallbackUnreported ==
    /\ mainPc = "fallback"
    /\ files' = MapSet(files, IndexFile,
           Page("fallback", <<>>, NoLink, NoLink, <<>>,
                [k \in DOMAIN body |-> k]))
    /\ mainPc' = "fallback done"
    /\ UNCHANGED <<body, chapters, skipChapters, minimalProcessing,
                   chapterIndex, processedChapters, toc, log,
                   structVars, textVars, footMap, footVars, transVars,
                   lateVars>>

\* lines 839-854: the document is decoded again, without options, and
\* written whole as index.html, with no sidebar
Fallback ==
    /\ mainPc = "fallback"
    /\ files' = MapSet(files, IndexFile,
           Page("fallback", <<>>, NoLink, NoLink, <<>>,
                [k \in DOMAIN body |-> k]))
    /\ log' = Append(log, Report("fallback", "", 0))
    /\ mainPc' = "fallback done"
    /\ UNCHANGED <<body, chapters, skipChapters, minimalProcessing,
                   chapterIndex, processedChapters, toc,
                   structVars, textVars, footMap, footVars, transVars,
                   lateVars>>

\* lines 855-857: the fallback throws as well
FallbackThrows ==
    /\ mainPc = "fallback"
    /\ log' = Append(log, Report("fallback failed", "", 0))
    /\ mainPc' = "failed"
    /\ UNCHANGED <<body, chapters, skipChapters, minimalProcessing,
                   chapterIndex, processedChapters, toc, files,
                   structVars, textVars, footMap, footVars, transVars,
                   lateVars>>

NextSite ==
    \/ Decode
    \/ DecodeThrows
    \/ ParseChapters
    \/ SkipChapter
    \/ ProcessChapter
    \/ ChapterThrows
    \/ StartWriting
    \/ WritePage
    \/ WriteIndex
    \/ WriteThrows
    \/ Fallback
    \/ FallbackThrows

SpecSite == InitSite /\ [][NextSite]_vars

(***************************************************************************)
(* SpecTimed: the run of main (SpecSite) with the clock.  Time is counted  *)
(* in ticks of 5000 ms; it passes between the steps of the run and stops   *)
(* being read when the run has ended, so that in the end `now` is what     *)
(* tAll() reports (lines 664, 832).                                        *)
(***************************************************************************)
MaxTime == 4        \* ticks after which the clock is no longer followed

\* config.processingTimeout: 10_000 ms, in ticks
processingTimeout == 2

Ended == mainPc \in {"done", "failed", "fallback done"}

\* the clock advances while main is running; no step of main reads it
Tick ==
    /\ ~Ended
    /\ now < MaxTime
    /\ now' = now + 1
    /\ UNCHANGED <<structVars, textVars, footMap, footVars, transVars,
                   siteVars, imageVars, genVars>>

NextTimed == NextSite \/ Tick

SpecTimed == InitSite /\ [][NextTimed]_vars

(***************************************************************************)
(* SpecStages: the stages of main (src/unnamed/part_000 679-764) in the    *)
(* order the code runs them, on one document: the section pass of          *)
(* parseAndCleanFootnotes (SpecFoot's actions), parseChapters on the       *)
(* cleaned document, the two passes of extractFootnotes, the merge, and    *)
(* the section loop.                                                       *)
(***************************************************************************)
MaxStageEls == 3    \* most top-level nodes of the document

Heading(tagName, txt) == [kind |-> "heading", tag |-> tagName, text |-> txt]

\* children of two footnote sections, a section with no element, an element
\* of the selector list, a sup and a sub, a paragraph, two headings
StageNodes ==
    { SecChild(1, "p", El(<<"f", "n", "1">>, <<"x">>)),
      SecChild(1, "li", El(<<>>, <<"2", ")", " ", "y">>)),
      SecChild(2, "p", El(<<>>, <<"1", ".", " ", "y">>)),
      EmptySection,
      Def(El(<<>>, <<"2", ")", " ", "y">>)),
      Script("sup", SupSub(<<"1">>, <<"1", " ", "z">>)),
      Script("sub", SupSub(<<"1">>, <<"1", " ", "z">>)),
      Para,
      Heading("h1", <<"chapter", "1">>),
      Heading("h2", <<"untitled">>) }

\* a node as parseChapters reads it: its tag, and the words of a heading
NodeBlock(node) ==
    IF node.kind = "heading" THEN Block(node.tag, node.text)
    ELSE Block(node.kind, <<>>)

InitStages ==
    /\ StructIdle
    /\ TextIdle
    /\ TransIdle
    /\ LateIdle
    /\ footMap = EmptyMap
    /\ fnPhase = "sections"
    /\ fnDoc \in SeqsUpTo(StageNodes, MaxStageEls)
    /\ fnDom = [i \in DOMAIN fnDoc |-> [at |-> i, node |-> fnDoc[i]]]
    /\ fnCursor = 1
    /\ extractedFootnotes = EmptyMap
    /\ additionalFootnotes = EmptyMap
    /\ body = <<>>
    /\ chapters = <<>>
    /\ skipChapters = {}
    /\ minimalProcessing = FALSE
    /\ chapterIndex = 0
    /\ processedChapters = <<>>
    /\ toc = <<>>
    /\ files = EmptyMap
    /\ mainPc = "footnotes"
    /\ log = <<>>

\* the sections are cut from the document as it was decoded
PartitionRaw ==
    /\ fnPhase = "selectors"
    /\ mainPc = "footnotes"
    /\ body' = [k \in DOMAIN fnDoc |-> NodeBlock(fnDoc[k])]
    /\ chapters' = parseChapters(body')
    /\ chapterIndex' = 0
    /\ mainPc' = "chapters"
    /\ UNCHANGED <<skipChapters, minimalProcessing, processedChapters, toc,
                   files, log, structVars, textVars, footMap, footVars,
                   transVars, lateVars>>

\* line 685: parseChapters(cleanedHtml), once parseAndCleanFootnotes has
\* returned and before extractFootnotes is called
PartitionCleaned ==
    /\ fnPhase = "selectors"
    /\ mainPc = "footnotes"
    /\ body' = [k \in DOMAIN fnDom |-> NodeBlock(fnDom[k].node)]
    /\ chapters' = parseChapters(body')
    /\ chapterIndex' = 0
    /\ mainPc' = "chapters"
    /\ UNCHANGED <<skipChapters, minimalProcessing, processedChapters, toc,
                   files, log, structVars, textVars, footMap, footVars,
                   transVars, lateVars>>

\* lines 689-693: extractFootnotes and the merge, after parseChapters
ExtractSelectorElement == mainPc = "chapters" /\ ScanSelectorElement

ExtractSelectorsDone == mainPc = "chapters" /\ FinishSelectors

ExtractSupSub == mainPc = "chapters" /\ ScanSupSub

MergeExtracted == mainPc = "chapters" /\ MergeFootnotes

\* lines 708-764: one turn of the section loop, which starts after the merge
EnrichChapter == fnPhase = "merged" /\ ProcessChapter

NextStages ==
    \/ ScanSectionChild
    \/ RemoveSection
    \/ FinishSections
    \/ PartitionCleaned
    \/ ExtractSelectorElement
    \/ ExtractSelectorsDone
    \/ ExtractSupSub
    \/ MergeExtracted
    \/ EnrichChapter

SpecStages == InitStages /\ [][NextStages]_vars

(***************************************************************************)
(* SpecImage: processImageReferences (src/converter.js 489-508) called on  *)
(* the html of one content item.  The letters rId are one element of the   *)
(* string, as are the fixed pieces of the image tag and a file name.       *)
(***************************************************************************)
MaxImageLen == 4    \* longest item html given to processImageReferences

\* the prefix of a relationship id, two digits, any other character
ImageChars == {"rId", "1", "2", "a"}

ImgOpen == "<img src=\"../images/"
ImgMid  == "\" class=\"novel-image\" alt=\"Novel illustration\" data-original-id=\""
ImgEnd  == "\">"

\* the ids extractImages can map (lines 96-105), as their digits, and the
\* file each one names
ImageIds == {<<"1">>, <<"2">>, <<"1", "2">>}

FileName(id) ==
    IF id = <<"1">> THEN "image1.png"
    ELSE IF id = <<"2">> THEN "image2.png"
    ELSE "image12.png"

ImageMaps == {[id \in S |-> FileName(id)] : S \in SUBSET ImageIds}

\* the replacement string of lines 499-500 for imageId = rId<id>
ImageTag(id, map) ==
    <<ImgOpen, map[id], ImgMid, "rId">> \o id \o <<ImgEnd>>

\* s.replace(new RegExp(escapeRegExp(pat), 'g'), rep) from position i on:
\* every occurrence of pat, left to right, none overlapping
RECURSIVE ReplaceAll(_, _, _, _)
ReplaceAll(s, i, pat, rep) ==
    IF i > Len(s) THEN <<>>
    ELSE IF i + Len(pat) - 1 <= Len(s) /\ SubSeq(s, i, i + Len(pat) - 1) = pat
    THEN rep \o ReplaceAll(s, i + Len(pat), pat, rep)
    ELSE <<s[i]>> \o ReplaceAll(s, i + 1, pat, rep)

\* the while loop of lines 495-503: imageRegex.exec(h) from lastIndex i - 1
\* on, over the html the function was given, rewriting processed
RECURSIVE ImageLoop(_, _, _, _)
ImageLoop(h, i, processed, map) ==
    IF i > Len(h) THEN processed
    ELSE IF h[i] = "rId" /\ DigitRun(h, i + 1) > 0
    THEN LET n  == DigitRun(h, i + 1)
             id == SubSeq(h, i + 1, i + n)
         IN  ImageLoop(h, i + 1 + n,
                 IF id \in DOMAIN map
                 THEN ReplaceAll(processed, 1, <<"rId">> \o id,
                                 ImageTag(id, map))
                 ELSE processed,
                 map)
    ELSE ImageLoop(h, i + 1, processed, map)

processImageReferences(h, map) == ImageLoop(h, 1, h, map)

InitImage ==
    /\ StructIdle
    /\ TextIdle
    /\ FootIdle
    /\ TransIdle
    /\ SiteIdle
    /\ TimeIdle
    /\ GenIdle
    /\ footMap = EmptyMap
    /\ imageHtml \in SeqsUpTo(ImageChars, MaxImageLen)
    /\ imageMap \in ImageMaps
    /\ processedHtml = imageHtml
    /\ imagePc = "called"

\* one call, as generateChapterHtml and generateAppendixHtml make it (lines
\* 412, 455)
ProcessImageReferences ==
    /\ imagePc = "called"
    /\ processedHtml' = processImageReferences(imageHtml, imageMap)
    /\ imagePc' = "returned"
    /\ UNCHANGED <<imageHtml, imageMap, structVars, textVars, footMap,
                   footVars, transVars, siteVars, timeVars, genVars>>

NextImage == ProcessImageReferences

SpecImage == InitImage /\ [][NextImage]_vars

(***************************************************************************)
(* SpecGenerate: extractDocumentStructure followed by generateHtmlFiles    *)
(* (src/converter.js 338-480) on the structure it returned.  A page is     *)
(* the two links of its navigation; a path is the sequence of the parts    *)
(* of the file's path under outputDir, a link the path it resolves to      *)
(* from the directory of the page that holds it.                           *)
(***************************************************************************)
IndexPath == <<"index">>

\* path.join(outputDir, 'chapters', `${chapter.id}.html`)
ChapterPath(chapter) == <<"chapters">> \o chapter.id

\* path.join(outputDir, 'appendices', `${appendix.id}.html`)
AppendixPath(appendix) == <<"appendices">> \o appendix.id

NavPage(prev, next) == [prev |-> prev, next |-> next]

\* generateFrontMatterHtml (lines 366-393): nav has a next link only, and
\* only when there is a chapter
FrontMatterPage(st) ==
    NavPage(NoLink,
            IF Len(st.chapters) > 0 THEN ChapterPath(st.chapters[1])
            ELSE NoLink)

\* generateChapterHtml (lines 403-439) for chapter i, with the prevChapter
\* and nextChapter of lines 344-345
ChapterPage(st, i) ==
    NavPage(IF i > 1 THEN ChapterPath(st.chapters[i - 1]) ELSE IndexPath,
            IF i < Len(st.chapters) THEN ChapterPath(st.chapters[i + 1])
            ELSE IF Len(st.appendices) > 0
                 THEN AppendixPath(st.appendices[1])
                 ELSE IndexPath)

\* generateAppendixHtml (lines 449-480) for appendix i, with the
\* prevAppendix and nextAppendix of lines 353-354
AppendixPage(st, i) ==
    NavPage(IF i > 1 THEN AppendixPath(st.appendices[i - 1])
            ELSE IF Len(st.chapters) > 0
                 THEN ChapterPath(st.chapters[Len(st.chapters)])
                 ELSE IndexPath,
            IF i < Len(st.appendices) THEN AppendixPath(st.appendices[i + 1])
            ELSE IndexPath)

\* fs.writeFile for each page of a list, in order: a later page of the same
\* path replaces the earlier one
RECURSIVE WriteAll(_, _, _, _)
WriteAll(written, paths, pages, i) ==
    IF i > Len(paths) THEN written
    ELSE WriteAll(MapSet(written, paths[i], pages[i]), paths, pages, i + 1)

\* generateHtmlFiles(structure, $, outputDir, imageMap): the index page,
\* the chapter pages, the appendix pages
generateHtmlFiles(st) ==
    LET index == MapSet(EmptyMap, IndexPath, FrontMatterPage(st))
        withChapters ==
            WriteAll(index,
                     [i \in DOMAIN st.chapters |-> ChapterPath(st.chapters[i])],
                     [i \in DOMAIN st.chapters |-> ChapterPage(st, i)], 1)
    IN  WriteAll(withChapters,
                 [i \in DOMAIN st.appendices |-> AppendixPath(st.appendices[i])],
                 [i \in DOMAIN st.appendices |-> AppendixPage(st, i)], 1)

\* one call of the .each callback of extractDocumentStructure, before the
\* structure is returned
ExtractBlock == genPc = "idle" /\ VisitBlock

\* convertNovelToWebsite, line 52: the structure is handed over
GenerateHtmlFiles ==
    /\ genPc = "idle"
    /\ htmlFiles' = generateHtmlFiles(structure)
    /\ genPc' = "generated"
    /\ UNCHANGED <<structVars, textVars, footMap, footVars, transVars,
                   siteVars, imageVars, timeVars>>

NextGenerate == ExtractBlock \/ GenerateHtmlFiles

SpecGenerate == InitStruct /\ [][NextGenerate]_vars

(***************************************************************************)
(* Properties of extractDocumentStructure.                                 *)
(***************************************************************************)
\* the positions of the stream a content list was filled from, in order
Positions(content) == [j \in DOMAIN content |-> content[j].at]

\* every content list of the structure: front matter, chapters, appendices
AllContents ==
    <<structure.frontMatter>>
    \o [k \in DOMAIN structure.chapters |-> structure.chapters[k].content]
    \o [k \in DOMAIN structure.appendices |-> structure.appendices[k].content]

\* how many content items, over all sections, were made from block i
Occurrences(i) ==
    SeqSum([k \in DOMAIN AllContents |->
               Cardinality({j \in DOMAIN AllContents[k] :
                               AllContents[k][j].at = i})])

\* C1: every block that is not consumed as a structural heading is in the
\* content of exactly one section, none lost and none duplicated, also
\* when it follows a book heading before any chapter was opened.
C1_EveryBlockInExactlyOneSection ==
    \A i \in DOMAIN doc : ~IsStructural(doc[i]) => Occurrences(i) = 1

\* position in the stream of the k-th element satisfying P
RECURSIVE NthPos(_, _, _)
NthPos(P(_), k, from) ==
    IF from > Len(doc) THEN 0
    ELSE IF P(doc[from])
         THEN IF k = 1 THEN from ELSE NthPos(P, k - 1, from + 1)
         ELSE NthPos(P, k, from + 1)

\* the blocks after the heading at position h up to the next structural
\* heading (or the end of the stream), in source order
RECURSIVE BlocksAfter(_)
BlocksAfter(h) ==
    IF h + 1 > Len(doc) \/ IsStructural(doc[h + 1]) THEN <<>>
    ELSE <<h + 1>> \o BlocksAfter(h + 1)

\* C2: the content of each chapter and of each appendix is exactly the
\* sequence of non-structural blocks between its heading and the next
\* structural heading, in source order.
C2_ContentIsBlocksUpToNextHeading ==
    /\ \A k \in DOMAIN structure.chapters :
          Positions(structure.chapters[k].content)
              = BlocksAfter(NthPos(IsChapterHeading, k, 1))
    /\ \A k \in DOMAIN structure.appendices :
          Positions(structure.appendices[k].content)
              = BlocksAfter(NthPos(IsAppendixHeading, k, 1))

\* C10: no two chapters have the same identifier and no two appendices
\* have the same identifier.
C10_SectionIdsUnique ==
    /\ \A j, k \in DOMAIN structure.chapters :
          structure.chapters[j].id = structure.chapters[k].id => j = k
    /\ \A j, k \in DOMAIN structure.appendices :
          structure.appendices[j].id = structure.appendices[k].id => j = k

\* the rule of section 4.3 a block falls under, first matching rule first
HeadingKind(b) ==
    IF b.tag \in {"h1", "h2"} /\ IsAppendixText(b.text) THEN "appendix"
    ELSE IF b.tag \in {"h1", "h2"} /\ IsChapterText(b.text) THEN "chapter"
    ELSE IF b.tag = "h1" /\ IsBookText(b.text) THEN "book"
    ELSE "content"

Opened(kind, wanted) == IF kind = wanted THEN 1 ELSE 0

\* C11: each block is classified by the first matching rule in the order
\* appendix, chapter, book, content: the callback opens at most one
\* section, and it is an appendix for a heading matching an appendix phrase
\* (also when it matches the chapter pattern), a chapter for a heading
\* matching the chapter pattern (also when it matches the book pattern), a
\* book only for an h1.
C11_FirstMatchingRuleWins ==
    [][doc' # doc =>
        LET b == Last(doc')
            newApp == Len(structure'.appendices) - Len(structure.appendices)
            newChap == Len(structure'.chapters) - Len(structure.chapters)
            newBook == IF /\ Len(structure'.books) > Len(structure.books)
                          /\ Last(structure'.books).title = b.text
                       THEN 1 ELSE 0
        IN  /\ newApp + newChap + newBook <= 1
            /\ newApp = Opened(HeadingKind(b), "appendix")
            /\ newChap = Opened(HeadingKind(b), "chapter")
            /\ newBook = Opened(HeadingKind(b), "book")]_vars

\* the stream held a heading matching both an appendix phrase and the
\* chapter pattern, one matching both the chapter and the book pattern, and
\* an h2 matching the book pattern
C11_Witness ==
    /\ \E i \in DOMAIN doc :
          /\ IsTopHeading(doc[i])
          /\ IsAppendixText(doc[i].text) /\ IsChapterText(doc[i].text)
    /\ \E i \in DOMAIN doc :
          /\ doc[i].tag = "h1" /\ ~IsAppendixText(doc[i].text)
          /\ IsChapterText(doc[i].text) /\ IsBookText(doc[i].text)
    /\ \E i \in DOMAIN doc :
          doc[i].tag = "h2" /\ HeadingKind(doc[i]) = "content"
              /\ IsBookText(doc[i].text)

\* the positions of the blocks of one kind, in stream order
RECURSIVE PosOfKind(_, _)
PosOfKind(kind, from) ==
    IF from > Len(doc) THEN <<>>
    ELSE (IF HeadingKind(doc[from]) = kind THEN <<from>> ELSE <<>>)
             \o PosOfKind(kind, from + 1)

\* the books the stream calls for: the default book when the first chapter
\* heading has no book heading before it, then one book per book heading,
\* each with the chapters whose headings lie between its own heading and
\* the next book heading
ExpectedBooks ==
    LET cp == PosOfKind("chapter", 1)
        bp == PosOfKind("book", 1)
        hasDefault == cp # <<>> /\ (bp = <<>> \/ cp[1] < bp[1])
        starts == (IF hasDefault THEN <<0>> ELSE <<>>) \o bp
        endOf(j) == IF j = Len(starts) THEN Len(doc) + 1 ELSE starts[j + 1]
    IN  [j \in DOMAIN starts |->
            [title |-> IF starts[j] = 0 THEN <<"book", "one">>
                       ELSE doc[starts[j]].text,
             chapters |-> SelectSeq([k \in DOMAIN cp |-> k],
                              LAMBDA k : starts[j] < cp[k] /\ cp[k] < endOf(j))]]

\* the chapter lists of the books, one after the other
RECURSIVE BookChapters(_)
BookChapters(books) ==
    IF books = <<>> THEN <<>>
    ELSE Head(books).chapters \o BookChapters(Tail(books))

\* C12: every chapter is in the chapter list of exactly one book, the book
\* of the most recent book heading before it or the default book 'Book
\* One' when no book heading precedes the first chapter; the default book
\* is made at most once; the books' chapter lists, one after the other,
\* are structure.chapters in order.
C12_ChaptersGroupedByBook ==
    /\ structure.books = ExpectedBooks
    /\ BookChapters(structure.books)
           = [k \in DOMAIN structure.chapters |-> k]

\* a chapter went to the default book, then a book heading came and a
\* chapter went to that book
C12_Witness ==
    /\ Len(structure.books) = 2
    /\ PosOfKind("chapter", 1) # <<>>
    /\ PosOfKind("book", 1) # <<>>
    /\ PosOfKind("chapter", 1)[1] < PosOfKind("book", 1)[1]
    /\ structure.books[1].chapters # <<>>
    /\ structure.books[2].chapters # <<>>


(***************************************************************************)
(* Reading markup back: the annotation spans of a string, and the          *)
(* reference markers of a text.                                            *)
(***************************************************************************)
IsMarkup(tok) == tok \in {SpanOpen, SpanMissingOpen, AttrEnd, SpanClose, UiOpen}

IsSpanOpen(tok) == tok \in {SpanOpen, SpanMissingOpen}

\* the index of the first piece of markup at or after j, Len(h) + 1 if none
RECURSIVE NextMarkup(_, _)
NextMarkup(h, j) ==
    IF j > Len(h) THEN Len(h) + 1
    ELSE IF IsMarkup(h[j]) THEN j ELSE NextMarkup(h, j + 1)

\* the annotation span opened at position i: its class, the value of its
\* data-tr attribute, its visible text, and whether the attribute is closed
\* by "> and the element by </span> with no markup in between
SpanAt(h, i) ==
    LET j == NextMarkup(h, i + 1)
        k == NextMarkup(h, j + 1)
    IN  [missing |-> h[i] = SpanMissingOpen,
         tr      |-> SubSeq(h, i + 1, j - 1),
         vis     |-> SubSeq(h, j + 1, k - 1),
         intact  |-> At(h, j) = AttrEnd /\ At(h, k) = SpanClose]

\* the annotation spans of h, in order
RECURSIVE SpanList(_, _)
SpanList(h, i) ==
    IF i > Len(h) THEN <<>>
    ELSE IF IsSpanOpen(h[i]) THEN <<SpanAt(h, i)>> \o SpanList(h, i + 1)
    ELSE SpanList(h, i + 1)

Spans(h) == SpanList(h, 1)

\* the numerals of the reference markers '[nF]', '[n]', 'nF' of s, in order
RECURSIVE MarkerNums(_, _)
MarkerNums(s, i) ==
    IF i > Len(s) THEN <<>>
    ELSE LET r == RefMatch(s, i)
         IN  IF r.len > 0 THEN <<r.num>> \o MarkerNums(s, i + r.len)
             ELSE MarkerNums(s, i + 1)

\* the characters of s that belong to no reference marker, in order
RECURSIVE OutsideMarkers(_, _)
OutsideMarkers(s, i) ==
    IF i > Len(s) THEN <<>>
    ELSE LET r == RefMatch(s, i)
         IN  IF r.len > 0 THEN OutsideMarkers(s, i + r.len)
             ELSE <<s[i]>> \o OutsideMarkers(s, i + 1)

\* the characters of h that belong to no annotation span, in order
RECURSIVE OutsideSpans(_, _)
OutsideSpans(h, i) ==
    IF i > Len(h) THEN <<>>
    ELSE IF IsSpanOpen(h[i])
         THEN OutsideSpans(h, NextMarkup(h, NextMarkup(h, i + 1) + 1) + 1)
         ELSE <<h[i]>> \o OutsideSpans(h, i + 1)

\* the markers of the text node once duplicated markers are collapsed: a
\* duplicated pair nFnF is one marker
Markers == MarkerNums(normalizeRefs(text), 1)

ResolvedSpan(n, trans) ==
    [missing |-> FALSE, tr |-> escapeHTML(trans), vis |-> n \o <<"F">>,
     intact |-> TRUE]

MissingSpan(n, payload) ==
    [missing |-> TRUE, tr |-> payload, vis |-> n \o <<"F">>, intact |-> TRUE]

\* the position of the first appendix, chapter or book heading of the
\* stream, Len(doc) + 1 when there is none
FirstStructural ==
    LET hs == {k \in DOMAIN doc : HeadingKind(doc[k]) # "content"}
    IN  IF hs = {} THEN Len(doc) + 1
        ELSE CHOOSE k \in hs : \A j \in hs : k <= j

\* C26: the front matter is the blocks before the first appendix, chapter
\* or book heading, every one of them and in order, headings that open
\* nothing included; none of these blocks is in a chapter or an appendix,
\* no block after that heading is in the front matter, and the flag is
\* set exactly until that heading.
C26_FrontMatterClosedForGood ==
    /\ Positions(structure.frontMatter) = [k \in 1..(FirstStructural - 1) |-> k]
    /\ \A j \in DOMAIN structure.frontMatter :
           structure.frontMatter[j] = Item(doc[j], j)
    /\ \A c \in 2..Len(AllContents) : \A j \in DOMAIN AllContents[c] :
           AllContents[c][j].at > FirstStructural
    /\ inFrontMatter <=> FirstStructural = Len(doc) + 1

\* an h1 that opens nothing, an h3 and a paragraph went to the front matter,
\* a heading closed it, and a paragraph came after
C26_Witness ==
    /\ Len(doc) = MaxBlocks
    /\ FirstStructural = 3
    /\ doc[1].tag = "h1"
    /\ doc[2].tag = "h3"
    /\ doc[4].tag = "p"
    /\ Len(structure.frontMatter) = 2

(***************************************************************************)
(* Properties of processConlangInText (SpecText).                          *)
(***************************************************************************)
\* C3: for every numeral n present in the footnote mapping, each marker
\* occurrence for n is replaced by one span whose visible text is nF and
\* whose data-tr payload is escapeHTML(mapping[n]); the text outside the
\* markers is unchanged.
C3_ResolvedMarkerBecomesSpan ==
    pc = "conlang" =>
        /\ Len(Spans(html)) = Len(Markers)
        /\ \A i \in DOMAIN Markers :
              Markers[i] \in DOMAIN footMap =>
                  Spans(html)[i] = ResolvedSpan(Markers[i], footMap[Markers[i]])
        /\ OutsideSpans(html, 1) = OutsideMarkers(normalizeRefs(text), 1)

C8_NormalizeIdempotent == [][pc = "normalized" => html' = html]_vars

\* the places <<p, k>> where the text holds a duplicated marker nFnF, n of
\* k digits starting at p, and no digit anywhere else
LoneArtifacts(s) ==
    {pk \in (1..Len(s)) \X (1..Len(s)) :
        LET p == pk[1]
            k == pk[2]
        IN  /\ p + 2 * k + 1 <= Len(s)
            /\ \A i \in DOMAIN s :
                  IsDigit(s[i]) <=>
                      (i \in p..(p + k - 1) \/ i \in (p + k + 1)..(p + 2 * k))
            /\ s[p + k] = "F"
            /\ s[p + 2 * k + 1] = "F"
            /\ SubSeq(s, p + k + 1, p + 2 * k) = SubSeq(s, p, p + k - 1)}

Before(s, pk) == SubSeq(s, 1, pk[1] - 1)
After(s, pk) == SubSeq(s, pk[1] + 2 * pk[2] + 2, Len(s))
Numeral(s, pk) == SubSeq(s, pk[1], pk[1] + pk[2] - 1)

\* the duplicated marker has become exactly one annotation span for n
OneAnnotationFor(n) ==
    /\ Len(Spans(html)) = 1
    /\ Spans(html)[1].vis = n \o <<"F">>
    /\ Spans(html)[1].intact

\* C9: a duplicated marker nFnF is collapsed to the single marker
\* nF by whichever pass handles it (processConlangInText, cleanupArtifacts)
\* and yields one annotation; it is neither resolved twice nor deleted.
C9_ArtifactCollapsedNeverDeleted ==
    \A pk \in LoneArtifacts(text) :
        /\ pc = "conlang" => OneAnnotationFor(Numeral(text, pk))
        /\ pc = "cleaned" =>
              html = Before(text, pk) \o Numeral(text, pk) \o <<"F">>
                         \o After(text, pk)

\* s holds an artifact nFnF somewhere
HasArtifact(s) == \E i \in DOMAIN s : DupMatch(s, i) > 0

\* C25: the text cleanupArtifacts leaves in the place of a text node holds
\* no artifact nFnF, whatever the text was, and a text that held none is
\* as it was.
C25_NoArtifactAfterCleanup ==
    pc = "cleaned" =>
        /\ ~HasArtifact(html)
        /\ ~HasArtifact(text) => html = text

(***************************************************************************)
(* Properties of the section loop (SpecMain).                              *)
(***************************************************************************)
\* C4: with reference processing enabled, every reference marker of an
\* emitted section has been replaced by an annotation span, resolved or
\* missing; none is left as raw text or removed, whatever the mapping.
C4_EveryMarkerReplaced ==
    (pc = "pushed" /\ ~skipConlangProcessing) =>
        Len(Spans(html)) = Len(Markers)

\* C7: once enrichConlang has made an annotation span, the later passes
\* over the section leave its data-tr payload and visible text unchanged.
C7_SpansUntouchedByUIPass ==
    [][pc = "enriched" => Spans(html') = Spans(html)]_vars

\* the reference markers '[nF]', '[n]', 'nF' of s as they are written, in
\* order
RECURSIVE MarkerTokens(_, _)
MarkerTokens(s, i) ==
    IF i > Len(s) THEN <<>>
    ELSE LET r == RefMatch(s, i)
         IN  IF r.len > 0
             THEN <<SubSeq(s, i, i + r.len - 1)>> \o MarkerTokens(s, i + r.len)
             ELSE MarkerTokens(s, i + 1)

\* C20: with skipConlangProcessing set, the content pushed for a section
\* has the reference markers of the text it was made from, written as they
\* were and in the same order, and holds no annotation span.
C20_MarkersUntouchedWhenSkipped ==
    (pc = "pushed" /\ skipConlangProcessing) =>
        /\ MarkerTokens(html, 1) = MarkerTokens(text, 1)
        /\ Spans(html) = <<>>

\* s with every bracket pair whose content is not digits with an optional
\* F put in a ui span that holds the pair as it was written
RECURSIVE WrapBrackets(_, _)
WrapBrackets(s, i) ==
    IF i > Len(s) THEN <<>>
    ELSE LET j == IF s[i] = "[" THEN NextClose(s, i + 1) ELSE 0
         IN  IF j > i + 1
             THEN (IF IsRefContent(SubSeq(s, i + 1, j - 1))
                   THEN SubSeq(s, i, j)
                   ELSE <<UiOpen>> \o SubSeq(s, i, j) \o <<SpanClose>>)
                  \o WrapBrackets(s, j + 1)
             ELSE <<s[i]>> \o WrapBrackets(s, i + 1)

\* C24: the UI pass over a paragraph that holds no annotation span wraps
\* every bracket pair whose content is not a numeral with an optional F in
\* a ui span whose text is the pair as written, and leaves the pairs '[nF]'
\* and '[n]' and everything else as they are.
C24_UISpanKeepsBracketText ==
    [][(pc = "enriched" /\ tag = "p" /\ Spans(html) = <<>>)
           => html' = WrapBrackets(html, 1)]_vars

(***************************************************************************)
(* Properties of footnote discovery (SpecFoot).                            *)
(***************************************************************************)
\* every entry of Map m is still in m', with the same annotation
Kept(m1, m2) == \A n \in DOMAIN m1 : n \in DOMAIN m2 /\ m2[n] = m1[n]

\* the mapping discovered so far, the passes taken in priority order
Discovered ==
    [n \in DOMAIN extractedFootnotes \cup DOMAIN additionalFootnotes |->
        IF n \in DOMAIN extractedFootnotes THEN extractedFootnotes[n]
        ELSE additionalFootnotes[n]]

\* C6: the footnote mapping is write-once per numeral: once a numeral has
\* an annotation, no later element and no later pass changes it, and the
\* merged mapping gives each numeral its first resolution.
C6_FirstResolutionWins ==
    [][/\ Kept(extractedFootnotes, extractedFootnotes')
       /\ Kept(additionalFootnotes, additionalFootnotes')
       /\ fnPhase' = "merged" => footMap' = Discovered]_vars

\* the numeral a definition element yields: from its id, else from the
\* start of its text
ChildNumeral(el) ==
    IF IdNum(el.id) # <<>> THEN IdNum(el.id) ELSE LeadNum(Trim(el.text))

\* the element has a recoverable numeral and text left once the numeral and
\* its punctuation are stripped
HasDefinition(el) ==
    ChildNumeral(el) # <<>> /\ Trim(StripNum(Trim(el.text))) # <<>>

\* C13: after parseAndCleanFootnotes no footnote section and none of its
\* elements is left in the cleaned HTML, however many definitions it gave;
\* the mapping holds an entry for each numeral of an element of a section
\* that has a recoverable numeral and non-empty text, and no other entry.
C13_SectionsRemovedEntryPerChild ==
    fnPhase \in {"selectors", "supsub", "merged"} =>
        /\ \A k \in DOMAIN fnDom : fnDom[k].node.kind \notin {"child", "section"}
        /\ DOMAIN extractedFootnotes =
               {ChildNumeral(fnDoc[i].el) :
                   i \in {j \in DOMAIN fnDoc :
                             /\ fnDoc[j].kind = "child"
                             /\ HasDefinition(fnDoc[j].el)}}

\* C14: no numeral is recorded with an empty annotation, in any pass and in
\* the merged mapping.
C14_NoEmptyAnnotation ==
    /\ \A n \in DOMAIN extractedFootnotes : extractedFootnotes[n] # <<>>
    /\ \A n \in DOMAIN additionalFootnotes : additionalFootnotes[n] # <<>>
    /\ \A n \in DOMAIN footMap : footMap[n] # <<>>

(***************************************************************************)
(* Properties of transformFootnotes (SpecTransform).                       *)
(***************************************************************************)
\* C15: every anchor that points at a footnote element of the document
\* becomes a tooltip carrying that element's text, also when an earlier
\* anchor pointed at the same element.
C15_EveryAnchorConverted ==
    \A k \in DOMAIN tfRefs :
        (k < tfCursor /\ tfRefs[k].target \in DOMAIN tfDefs) =>
            /\ tfRefs[k].kind = "tooltip"
            /\ tfRefs[k].text = FootnoteText(tfDefs[tfRefs[k].target])

(***************************************************************************)
(* Properties of main (SpecSite).                                          *)
(***************************************************************************)
IdAt(k) == generateId(chapters[k], k - 1)

Range(f) == {f[k] : k \in DOMAIN f}

\* the targets of the links of a page
Links(page) ==
    (Range(page.sidebar) \cup Range(page.links) \cup {page.prev, page.next})
        \ {NoLink}

\* the id of the nearest section before (d = -1) or after (d = 1) section k
\* that is not skipped
RECURSIVE NearestKept(_, _)
NearestKept(k, d) ==
    IF k + d \notin DOMAIN chapters THEN NoLink
    ELSE IF IdAt(k + d) \notin skipChapters THEN IdAt(k + d)
    ELSE NearestKept(k + d, d)

\* C16: in a run that completes, no page is written for an id of the skip
\* list, every link of every page written targets a page that is written and
\* none targets a skipped id, every section that is not skipped has its
\* page, and the previous and next links of that page are the nearest
\* sections before and after it that are not skipped.
C16_NavigationStepsOverSkipped ==
    mainPc = "done" =>
        /\ \A id \in skipChapters : id \notin DOMAIN files
        /\ \A f \in DOMAIN files : \A target \in Links(files[f]) :
               target \in DOMAIN files /\ target \notin skipChapters
        /\ \A k \in DOMAIN chapters :
               (/\ IdAt(k) \notin skipChapters
                /\ \A j \in DOMAIN chapters : j > k => IdAt(j) # IdAt(k)) =>
                   /\ IdAt(k) \in DOMAIN files
                   /\ files[IdAt(k)].prev = NearestKept(k, -1)
                   /\ files[IdAt(k)].next = NearestKept(k, 1)

\* a run that completed with a skipped section between two written ones
C16_Witness ==
    /\ mainPc = "done"
    /\ Len(chapters) = 3
    /\ IdAt(2) \in skipChapters
    /\ IdAt(1) \notin skipChapters
    /\ IdAt(3) \notin skipChapters
    /\ IdAt(1) # IdAt(3)
    /\ files[IdAt(1)].next = IdAt(3)
    /\ files[IdAt(3)].prev = IdAt(1)

\* C17: once the enrichment of one section has failed, the run still goes
\* on, and when it ends every other section that is not skipped has its
\* page.
C17_SectionFailureIsolated ==
    \A e \in Range(log) :
        (e.kind = "error" /\ e.stage = "section") =>
            /\ mainPc \in {"chapters", "pages", "done"}
            /\ mainPc = "done" =>
                   \A k \in DOMAIN chapters :
                       (k - 1 # e.index /\ IdAt(k) \notin skipChapters) =>
                           IdAt(k) \in DOMAIN files

DecodeFailed == log # <<>> /\ log[1] = Report("error", "decode", 0)

\* the page of the fallback: the whole decoded content, in order, with no
\* sidebar and no link
FallbackPage ==
    Page("fallback", <<>>, NoLink, NoLink, <<>>, [k \in DOMAIN body |-> k])

\* C18 as stated: after a failure of the decode step the run is in the
\* fallback, or has written the fallback page, or has stopped on a reported
\* failure of the fallback, whatever the configuration.
C18_FallbackAfterDecodeFailure ==
    DecodeFailed =>
        \/ mainPc \in {"fallback", "fallback done"}
        \/ mainPc = "failed" /\ log[Len(log)] = Report("fallback failed", "", 0)

\* C18 amended: with config.minimalProcessing set, a failure of the decode
\* step leads to the fallback; its success leaves index.html alone, made of
\* the raw content without sections and without footnote mapping, and
\* reports the fallback after the error; its failure is reported by a
\* message of its own after the error and leaves nothing written.  Without
\* config.minimalProcessing the error is reported and nothing is written.
C18_FallbackWhenMinimalProcessing ==
    DecodeFailed =>
        /\ minimalProcessing =>
              /\ mainPc \in {"fallback", "fallback done", "failed"}
              /\ mainPc = "fallback" => files = EmptyMap
              /\ mainPc = "fallback done" =>
                    /\ DOMAIN files = {IndexFile}
                    /\ files[IndexFile] = FallbackPage
                    /\ chapters = <<>>
                    /\ footMap = EmptyMap
                    /\ log = <<Report("error", "decode", 0),
                               Report("fallback", "", 0)>>
              /\ mainPc = "failed" =>
                    /\ files = EmptyMap
                    /\ log = <<Report("error", "decode", 0),
                               Report("fallback failed", "", 0)>>
        /\ ~minimalProcessing =>
              /\ mainPc = "failed"
              /\ files = EmptyMap
              /\ log = <<Report("error", "decode", 0)>>

\* the decode step failed on a document of MaxBody blocks and the fallback
\* page was written
C18_Witness ==
    /\ DecodeFailed
    /\ minimalProcessing
    /\ mainPc = "fallback done"
    /\ Len(body) = MaxBody
    /\ IndexFile \in DOMAIN files

\* the document has no h1 and no h2, the elements parseChapters cuts at
NoBoundary == \A k \in DOMAIN body : body[k].tag \notin {"h1", "h2"}

Partitioned == mainPc \in {"chapters", "pages", "done"}

RECURSIVE TokensReplaced(_, _, _)
TokensReplaced(h, i, map) ==
    IF i > Len(h) THEN <<>>
    ELSE IF h[i] = "rId" /\ DigitRun(h, i + 1) > 0
    THEN LET n  == DigitRun(h, i + 1)
             id == SubSeq(h, i + 1, i + n)
         IN  (IF id \in DOMAIN map THEN ImageTag(id, map)
              ELSE SubSeq(h, i, i + n))
             \o TokensReplaced(h, i + 1 + n, map)
    ELSE <<h[i]>> \o TokensReplaced(h, i + 1, map)

\* C21: the html returned is the html given with every token rId<digits>
\* whose id is in the map replaced by exactly one image tag for the mapped
\* file, and every other token and character as it was; nothing inside an
\* inserted tag is rewritten.
C21_EachTokenReplacedOnce ==
    imagePc = "returned" =>
        processedHtml = TokensReplaced(imageHtml, 1, imageMap)

(***************************************************************************)
(* Properties of the order of the stages of main (SpecStages).             *)
(***************************************************************************)
\* the decoded document without its footnote sections, the numeric sup
\* elements rewritten, as parseChapters reads it
StrippedStream ==
    LET kept == SelectSeq(fnDoc, LAMBDA n : n.kind \notin {"child", "section"})
    IN  [k \in DOMAIN kept |->
            NodeBlock(CleanReference([at |-> k, node |-> kept[k]]).node)]

\* C22: a step of the section loop, and every step after the first one,
\* finds the passes of footnote discovery finished and leaves the footnote
\* mapping and the two Maps it was merged from as they are; and the step
\* that partitions the document reads the stream with every footnote
\* section already removed, each section it makes lying inside that stream.
C22_StagesInStrictSequence ==
    [][/\ (processedChapters' # processedChapters \/ processedChapters # <<>>)
            => /\ fnPhase = "merged"
               /\ footMap' = footMap
               /\ extractedFootnotes' = extractedFootnotes
               /\ additionalFootnotes' = additionalFootnotes
       /\ chapters' # chapters
            => /\ body' = StrippedStream
               /\ \A k \in DOMAIN body' :
                      body'[k].tag \notin {"child", "section"}
               /\ \A j \in DOMAIN chapters' :
                      /\ chapters'[j].heading \in DOMAIN body' \cup {0}
                      /\ \A c \in DOMAIN chapters'[j].content :
                             chapters'[j].content[c] \in DOMAIN body'
                                 \ {chapters'[j].heading}]_vars

\* a document with a heading, a footnote section and a paragraph: the
\* section has given the mapping an entry, the stream that was partitioned
\* is shorter than the document, and the section loop has run
C22_Witness ==
    /\ processedChapters # <<>>
    /\ DOMAIN footMap # {}
    /\ Len(fnDoc) = MaxStageEls
    /\ \E k \in DOMAIN fnDoc : fnDoc[k].kind = "child"
    /\ \E k \in DOMAIN fnDoc : fnDoc[k].kind = "heading"
    /\ Len(body) = Len(fnDoc) - 1
    /\ chapters[1].heading # 0

(***************************************************************************)
(* Properties of the time budget (SpecTimed).                              *)
(***************************************************************************)
\* C23: a run that has taken longer than config.processingTimeout does not
\* end in success, and a run that has ended after that long has reported
\* an error.
C23_NoSuccessOverBudget ==
    (Ended /\ now > processingTimeout) =>
        /\ mainPc # "done"
        /\ \E e \in Range(log) : e.kind = "error"

(***************************************************************************)
(* Properties of generateHtmlFiles (SpecGenerate).                         *)
(***************************************************************************)
\* the pages in reading order: the index, the chapters, the appendices, and
\* the index again
ReadingOrder ==
    <<IndexPath>>
    \o [i \in DOMAIN structure.chapters |-> ChapterPath(structure.chapters[i])]
    \o [i \in DOMAIN structure.appendices |->
            AppendixPath(structure.appendices[i])]
    \o <<IndexPath>>

\* C27: in a site written with at least one chapter or appendix, the next
\* link of each page of the reading order targets the page after it, from
\* index.html through the chapters and the appendices back to index.html,
\* and the previous link of each chapter and appendix page targets the
\* page before it.
C27_NextLinksVisitEveryPage ==
    (genPc = "generated" /\ Len(ReadingOrder) > 2) =>
        \A k \in 1..(Len(ReadingOrder) - 1) :
            /\ ReadingOrder[k] \in DOMAIN htmlFiles
            /\ htmlFiles[ReadingOrder[k]].next = ReadingOrder[k + 1]
            /\ k > 1 => htmlFiles[ReadingOrder[k]].prev = ReadingOrder[k - 1]

=============================================================================
